---------------------------- MODULE Spec2Model ----------------------------
(***************************************************************************)
(* A model of the quiz session engine (services/quiz_service.py) and of    *)
(* the cache (services/cache_service.py) of the history quiz bot.          *)
(*                                                                         *)
(* Python values are modelled as tagged tuples so that values of different *)
(* Python types can be compared: <<"int", n>> is the int n, <<"str", n>>   *)
(* is the decimal string of n, <<"list", s>> is the list whose elements    *)
(* are the sequence s, and <<"none">> is None.                             *)
(***************************************************************************)
EXTENDS Integers, Sequences, FiniteSets, TLC

VARIABLES
    active_quizzes,   \* QuizService.active_quizzes: user id -> quiz_data or NoQuiz
    now,              \* datetime.now(timezone.utc), in seconds
    ticks,            \* number of clock advances so far (bounds the run)
    started,          \* number of start_quiz calls so far (bounds the run)
    restarts,         \* number of restarts of the process so far (bounds the run)
    test_results,     \* table TestResult: user id -> sequence of rows
    achievements,     \* table Achievement: user id -> sequence of names
    files,            \* data/quiz_state/user_<id>.json: user id -> content or NoFile
    last,             \* the last engine call and what it returned
    evaluated,        \* the lists check_achievements returned in the last ORM session
    eval_calls,       \* number of check_achievements calls so far (bounds the run)
    cache,            \* CacheService._cache: key -> entry or NoEntry
    locks,            \* CacheService._locks: key -> lock object id, or NoLock
    lock_owner,       \* lock object id -> caller holding it, or Nobody
    lock_made,        \* number of asyncio.Lock objects created so far
    pc,               \* cache caller -> position inside get_or_set
    my_lock,          \* cache caller -> the lock object it waits for or holds
    call_key,         \* cache caller -> the key it passed to get_or_set
    ret,              \* cache caller -> the value get_or_set returned, or NoValue
    factory_runs,     \* key -> number of factory computations started so far
    cleanup_task,     \* the task running _cleanup_loop is alive
    notification_service, \* QuizService.notification_service, by what it does
    notified,         \* number of notify_test_completion tasks created so far
    faults,           \* number of injected failures so far (bounds the run)
    temp,             \* the content of .temp_user_<id>.json, per user
    manifest,         \* the content of state.json
    saver,            \* the passes of save_active_quizzes that are running
    question_bank     \* the rows of table Question

fault_vars == <<notification_service, faults>>
snapshot_vars == <<temp, manifest, saver>>
engine_vars == <<active_quizzes, now, ticks, started, restarts, test_results,
                 achievements, files, last, evaluated, eval_calls,
                 notification_service, notified, faults, temp, manifest, saver,
                 question_bank>>
cache_vars == <<cache, locks, lock_owner, lock_made, pc, my_lock, call_key,
                ret, factory_runs, cleanup_task>>
vars == <<active_quizzes, now, ticks, started, restarts, test_results, achievements,
          files, last, evaluated, eval_calls, cache, locks, lock_owner, lock_made, pc, my_lock,
          call_key, ret, factory_runs, cleanup_task, notification_service, notified,
          faults, temp, manifest, saver, question_bank>>

-----------------------------------------------------------------------------
(* Bounds of the model *)

MaxStarts == 2
MaxTicks == 2
MaxEvalCalls == 2
MaxActive == 1
MaxRestarts == 1
MaxFaults == 1
MaxPasses == 1

-----------------------------------------------------------------------------
(* Python values *)

PyInt(n) == <<"int", n>>
PyStr(n) == <<"str", n>>
PyList(s) == <<"list", s>>
PyNone == <<"none">>

IsList(v) == v[1] = "list"

\* v1 == v2 in Python, for the values above
PyEq(v, w) == v[1] = w[1] /\ v = w

\* str(x) for an int or a str x
PyStrOf(v) == IF v[1] = "int" THEN PyStr(v[2]) ELSE v

\* [str(x) for x in s]
StrEach(s) == [i \in 1..Len(s) |-> PyStrOf(s[i])]


-----------------------------------------------------------------------------
(* The Data Store: users, topics and the question bank *)

Users == {1, 2}          \* telegram ids that talk to the bot
DbUsers == {1}           \* telegram ids that have a row in table User
Topics == {1, 2, 3, 4}

\* Rows of table Question; correct_answer is json.loads(q.correct_answer).
\* Topic 1 holds three single questions, topic 2 a multiple and a sequence
\* question, topic 3 is empty, topic 4 holds a single question whose
\* correct_answer is the empty list.
Bank ==
    { [id |-> 1, topic_id |-> 1, question_type |-> "single",
       correct_answer |-> <<PyInt(0)>>],
      [id |-> 2, topic_id |-> 1, question_type |-> "single",
       correct_answer |-> <<PyInt(1)>>],
      [id |-> 3, topic_id |-> 1, question_type |-> "single",
       correct_answer |-> <<PyInt(0)>>],
      [id |-> 4, topic_id |-> 2, question_type |-> "multiple",
       correct_answer |-> <<PyInt(0), PyInt(2)>>],
      [id |-> 5, topic_id |-> 2, question_type |-> "sequence",
       correct_answer |-> <<PyInt(0), PyInt(1)>>],
      [id |-> 6, topic_id |-> 4, question_type |-> "single",
       correct_answer |-> <<>>] }

QuestionIds == {q.id : q \in Bank}

\* session.query(Question).filter(Question.topic_id == topic_id)
QuestionsOf(topic_id) == {q \in question_bank : q.topic_id = topic_id}

\* the dict start_quiz builds for one selected question
Snapshot(q) == [id |-> q.id, correct_answer |-> q.correct_answer,
                question_type |-> q.question_type]

\* the question_count values callers pass
CountInputs == {2, 16}

\* question_count values on both sides of every step of the time limit
LimitCounts == {2, 10, 11, 15, 16, 20}

\* the answers callers pass to submit_answer for a question of a given type
AnswerInputs(question_type) ==
    CASE question_type = "single" -> {PyInt(0), PyInt(1)}
      [] question_type = "multiple" ->
            {PyList(<<PyInt(2), PyInt(0)>>), PyList(<<PyInt(0), PyInt(2)>>),
             PyList(<<PyInt(0)>>)}
      [] OTHER ->
            {PyList(<<PyStr(1), PyStr(0)>>), PyList(<<PyStr(0), PyStr(1)>>),
             PyList(<<PyInt(0), PyInt(1)>>)}

-----------------------------------------------------------------------------
(* start_quiz *)

Min(a, b) == IF a < b THEN a ELSE b

\* a choice of k rows with repeats allowed (random.choices)
SamplesWithRepeats(S, k) == [1..k -> S]

\* random.sample(questions, k): every ordered choice of k different rows
Samples(S, k) ==
    {s \in [1..k -> S] : \A i, j \in 1..k : i # j => s[i] # s[j]}

TimeLimitShort == 300
TimeLimitMedium == 600
TimeLimitLong == 1200
ShortCount == 10
MediumCount == 15

TimeLimit(question_count) ==
    IF question_count <= ShortCount THEN TimeLimitShort
    ELSE IF question_count <= MediumCount THEN TimeLimitMedium
    ELSE TimeLimitLong

NoQuiz == [absent |-> TRUE]

HasQuiz(aq, u) == aq[u] # NoQuiz

\* a new session whose time limit comes from the number of questions sampled
NewQuizLimitBySample(topic_id, selected, question_count, t) ==
    [topic_id |-> topic_id,
     questions |-> [i \in 1..Len(selected) |-> Snapshot(selected[i])],
     current_question |-> 0,
     answers |-> <<>>,
     start_time |-> t,
     end_time |-> t + TimeLimit(Len(selected)),
     time_limit |-> TimeLimit(Len(selected)),
     is_completed |-> FALSE]

\* the quiz_data dict of a new session
NewQuiz(topic_id, selected, question_count, t) ==
    [topic_id |-> topic_id,
     questions |-> [i \in 1..Len(selected) |-> Snapshot(selected[i])],
     current_question |-> 0,
     answers |-> <<>>,
     start_time |-> t,
     end_time |-> t + TimeLimit(question_count),
     time_limit |-> TimeLimit(question_count),
     is_completed |-> FALSE]

-----------------------------------------------------------------------------
(* dict helpers for quiz_data["answers"], whose keys are str(question id) *)

Key(question_id) == PyStr(question_id)

DictGet(d, k) == IF k \in DOMAIN d THEN d[k] ELSE PyNone

DictSet(d, k, v) == [x \in DOMAIN d \cup {k} |-> IF x = k THEN v ELSE d[x]]

-----------------------------------------------------------------------------
(* complete_quiz: scoring *)

\* line 622 evaluates question["correct_answer"][0] for every answered single
\* question, outside the length guard of lines 618-621: IndexError
ScoreRaises(question, user_answer) ==
    /\ user_answer # PyNone
    /\ question.question_type = "single"
    /\ Len(question.correct_answer) = 0

\* is_correct with a single answer compared to the whole correct_answer list
\* instead of its first element
IsCorrectWholeList(question, user_answer) ==
    IF user_answer = PyNone THEN FALSE
    ELSE IF question.question_type = "single"
         THEN PyEq(user_answer, PyList(question.correct_answer))
    ELSE IF question.question_type = "sequence"
         THEN LET user_seq == IF IsList(user_answer)
                              THEN StrEach(user_answer[2])
                              ELSE <<PyStrOf(user_answer)>>
              IN  user_seq = StrEach(question.correct_answer)
    ELSE FALSE

\* is_correct with a sequence compared as a set of elements
IsCorrectUnordered(question, user_answer) ==
    IF user_answer = PyNone THEN FALSE
    ELSE IF question.question_type = "single"
         THEN PyEq(user_answer, question.correct_answer[1])
    ELSE IF question.question_type = "sequence"
         THEN LET user_seq == IF IsList(user_answer)
                              THEN StrEach(user_answer[2])
                              ELSE <<PyStrOf(user_answer)>>
              IN  {user_seq[i] : i \in 1..Len(user_seq)} =
                  {PyStrOf(question.correct_answer[i]) :
                      i \in 1..Len(question.correct_answer)}
    ELSE FALSE

\* is_correct of one question (lines 613-638); only the types single and
\* sequence have a branch, every other type keeps is_correct = False
IsCorrect(question, user_answer) ==
    IF user_answer = PyNone THEN FALSE
    ELSE IF question.question_type = "single"
         THEN PyEq(user_answer, question.correct_answer[1])
    ELSE IF question.question_type = "sequence"
         THEN LET user_seq == IF IsList(user_answer)
                              THEN StrEach(user_answer[2])
                              ELSE <<PyStrOf(user_answer)>>
                  correct_seq == StrEach(question.correct_answer)
              IN  user_seq = correct_seq
    ELSE FALSE

\* the entry appended to question_results for one question
QuestionResult(question, answers) ==
    LET user_answer == DictGet(answers, Key(question.id))
    IN  [question_id |-> question.id,
         user_answer |-> user_answer,
         correct_answer |-> question.correct_answer,
         is_correct |-> IsCorrect(question, user_answer)]

\* question_results scored against the rows table Question holds now, not
\* against the dicts of the session
QuestionResultsRequeried(quiz_data) ==
    [i \in 1..Len(quiz_data.questions) |->
        LET held == quiz_data.questions[i]
            rows == {q \in question_bank : q.id = held.id}
        IN  QuestionResult(IF rows = {} THEN held ELSE Snapshot(CHOOSE q \in rows : TRUE),
                           quiz_data.answers)]

\* question_results of complete_quiz: one entry per question of the session
QuestionResults(quiz_data) ==
    [i \in 1..Len(quiz_data.questions) |->
        QuestionResult(quiz_data.questions[i], quiz_data.answers)]

\* correct_count: the number of entries with is_correct
CorrectCount(question_results) ==
    Cardinality({i \in 1..Len(question_results) : question_results[i].is_correct})

\* the percentage cut to one decimal instead of rounded
TruncateTenths(correct_count, total_questions) ==
    (correct_count * 1000) \div total_questions

\* round(x, 1) of x = correct_count / total_questions * 100, in tenths of a
\* percent; Python rounds the nearest-double of x half to even
RoundTenths(correct_count, total_questions) ==
    LET n == correct_count * 1000
        q == n \div total_questions
        r == n % total_questions
    IN  IF 2 * r < total_questions THEN q
        ELSE IF 2 * r > total_questions THEN q + 1
        ELSE IF q % 2 = 0 THEN q ELSE q + 1

Percentage(correct_count, total_questions) ==
    IF total_questions > 0 THEN RoundTenths(correct_count, total_questions) ELSE 0

\* time_spent as the wall-clock time since start_time, without the deadline
TimeSpentWallClock(quiz_data, t) == t - quiz_data.start_time

\* time_spent (lines 656-664): the deadline replaces now once it has passed
TimeSpent(quiz_data, t) ==
    LET end_time == IF t > quiz_data.end_time THEN quiz_data.end_time ELSE t
    IN  end_time - quiz_data.start_time

-----------------------------------------------------------------------------
(* achievements *)

HistoryThreshold == 10
FullPercentage == 1000     \* percentage == 100, in tenths

\* achievements_to_check, in list order, with its condition evaluated
AchievementsToCheck(percentage, result_count) ==
    << [name |-> "First test", condition |-> TRUE],
       [name |-> "Perfect score", condition |-> percentage = FullPercentage],
       [name |-> "History expert", condition |-> result_count >= HistoryThreshold] >>

SeqToSet(s) == {s[i] : i \in 1..Len(s)}

RECURSIVE Granted(_, _)
\* the names the loop over achievements_to_check adds, in order
Granted(to_check, existing_achievements) ==
    IF to_check = <<>> THEN <<>>
    ELSE LET a == Head(to_check)
             rest == Granted(Tail(to_check), existing_achievements)
         IN  IF a.name \notin existing_achievements /\ a.condition
             THEN <<a.name>> \o rest
             ELSE rest

-----------------------------------------------------------------------------
(* complete_quiz as a function of the state it reads *)

\* the dict complete_quiz returns, with every key always present
NoResult ==
    [success |-> FALSE, message |-> "", correct_count |-> 0,
     total_questions |-> 0, percentage |-> 0, question_results |-> <<>>,
     new_achievements |-> <<>>, topic_id |-> 0, time_spent |-> 0]

Failure(message) == [NoResult EXCEPT !.message = message]

\* the row complete_quiz adds to table TestResult
TestResultRow(quiz_data, question_results, t) ==
    [topic_id |-> quiz_data.topic_id,
     score |-> CorrectCount(question_results),
     max_score |-> Len(quiz_data.questions),
     percentage |-> Percentage(CorrectCount(question_results),
                               Len(quiz_data.questions)),
     time_spent |-> TimeSpent(quiz_data, t)]

\* what QuizService.notification_service does when complete_quiz uses it:
\* "none": no service is set; "unschedulable": asyncio.create_task raises;
\* "raising": the task is created and raises when it runs; "sending": the
\* task is created and sends
NotifierModes == {"none", "unschedulable", "raising", "sending"}

\* the notification block without its try/except
DispatchUnguarded(service) ==
    [tasks |-> IF service \in {"raising", "sending"} THEN 1 ELSE 0,
     raised |-> service = "unschedulable"]

\* the notification block of complete_quiz (lines 736-757): the number of
\* tasks it creates and whether it raises
Dispatch(service) ==
    [tasks |-> IF service \in {"raising", "sending"} THEN 1 ELSE 0,
     raised |-> FALSE]

\* the count of the rows committed before this completion only
ResultCountUnflushed(rows, row) == Len(rows)

\* session.query(TestResult).filter(TestResult.user_id == user.id).count()
\* after session.add(test_result): the session autoflushes, so the query
\* counts the new row with the rows of the table
ResultCount(rows, row) == Len(Append(rows, row))

\* complete_quiz with the session deleted before the user is looked up
CompleteQuizDeletingFirst(aq, tr, ach, u, t) ==
    IF ~HasQuiz(aq, u)
    THEN [aq |-> aq, tr |-> tr, ach |-> ach, raised |-> FALSE,
          res |-> Failure("no active quiz"), tasks |-> 0]
    ELSE
    LET quiz_data == aq[u]
        question_results == QuestionResults(quiz_data)
        row == TestResultRow(quiz_data, question_results, t)
        rows == Append(tr[u], row)
        new_achievements ==
            Granted(AchievementsToCheck(row.percentage, ResultCount(tr[u], row)),
                    SeqToSet(ach[u]))
    IN  IF \E i \in 1..Len(quiz_data.questions) :
              ScoreRaises(quiz_data.questions[i],
                          DictGet(quiz_data.answers, Key(quiz_data.questions[i].id)))
        THEN [aq |-> aq, tr |-> tr, ach |-> ach, raised |-> TRUE,
              res |-> NoResult, tasks |-> 0]
        ELSE IF u \notin DbUsers
        THEN [aq |-> [aq EXCEPT ![u] = NoQuiz], tr |-> tr, ach |-> ach,
              raised |-> FALSE, res |-> Failure("user not found"), tasks |-> 0]
        ELSE [aq |-> [aq EXCEPT ![u] = NoQuiz],
              tr |-> [tr EXCEPT ![u] = rows],
              ach |-> [ach EXCEPT ![u] = ach[u] \o new_achievements],
              raised |-> FALSE,
              res |-> [success |-> TRUE, message |-> "",
                       correct_count |-> row.score,
                       total_questions |-> row.max_score,
                       percentage |-> row.percentage,
                       question_results |-> question_results,
                       new_achievements |-> new_achievements,
                       topic_id |-> quiz_data.topic_id,
                       time_spent |-> row.time_spent],
              tasks |-> Dispatch(notification_service).tasks]

\* complete_quiz without the del of the session at its end
CompleteQuizKeeping(aq, tr, ach, u, t) ==
    IF ~HasQuiz(aq, u)
    THEN [aq |-> aq, tr |-> tr, ach |-> ach, raised |-> FALSE,
          res |-> Failure("no active quiz"), tasks |-> 0]
    ELSE
    LET quiz_data == aq[u]
        question_results == QuestionResults(quiz_data)
        row == TestResultRow(quiz_data, question_results, t)
        rows == Append(tr[u], row)
        new_achievements ==
            Granted(AchievementsToCheck(row.percentage, ResultCount(tr[u], row)),
                    SeqToSet(ach[u]))
    IN  IF \E i \in 1..Len(quiz_data.questions) :
              ScoreRaises(quiz_data.questions[i],
                          DictGet(quiz_data.answers, Key(quiz_data.questions[i].id)))
        THEN [aq |-> aq, tr |-> tr, ach |-> ach, raised |-> TRUE,
              res |-> NoResult, tasks |-> 0]
        ELSE IF u \notin DbUsers
        THEN [aq |-> aq, tr |-> tr, ach |-> ach, raised |-> FALSE,
              res |-> Failure("user not found"), tasks |-> 0]
        ELSE [aq |-> aq,
              tr |-> [tr EXCEPT ![u] = rows],
              ach |-> [ach EXCEPT ![u] = ach[u] \o new_achievements],
              raised |-> FALSE,
              res |-> [success |-> TRUE, message |-> "",
                       correct_count |-> row.score,
                       total_questions |-> row.max_score,
                       percentage |-> row.percentage,
                       question_results |-> question_results,
                       new_achievements |-> new_achievements,
                       topic_id |-> quiz_data.topic_id,
                       time_spent |-> row.time_spent],
              tasks |-> Dispatch(notification_service).tasks]

\* complete_quiz(user_id) run on the store aq and the tables tr and ach at
\* time t: the store and tables it leaves, what it returns, and whether it
\* raised instead of returning
CompleteQuizOn(aq, tr, ach, u, t) ==
    IF ~HasQuiz(aq, u)
    THEN [aq |-> aq, tr |-> tr, ach |-> ach, raised |-> FALSE,
          res |-> Failure("no active quiz"), tasks |-> 0]
    ELSE
    LET quiz_data == aq[u]
        question_results == QuestionResults(quiz_data)
        row == TestResultRow(quiz_data, question_results, t)
        rows == Append(tr[u], row)
        new_achievements ==
            Granted(AchievementsToCheck(row.percentage, ResultCount(tr[u], row)),
                    SeqToSet(ach[u]))
    IN  IF \E i \in 1..Len(quiz_data.questions) :
              ScoreRaises(quiz_data.questions[i],
                          DictGet(quiz_data.answers, Key(quiz_data.questions[i].id)))
        THEN [aq |-> aq, tr |-> tr, ach |-> ach, raised |-> TRUE,
              res |-> NoResult, tasks |-> 0]
        ELSE IF u \notin DbUsers
        THEN [aq |-> aq, tr |-> tr, ach |-> ach, raised |-> FALSE,
              res |-> Failure("user not found"), tasks |-> 0]
        ELSE IF Dispatch(notification_service).raised
        THEN [aq |-> aq,
              tr |-> [tr EXCEPT ![u] = rows],
              ach |-> [ach EXCEPT ![u] = ach[u] \o new_achievements],
              raised |-> TRUE, res |-> NoResult, tasks |-> 0]
        ELSE [aq |-> [aq EXCEPT ![u] = NoQuiz],
              tr |-> [tr EXCEPT ![u] = rows],
              ach |-> [ach EXCEPT ![u] = ach[u] \o new_achievements],
              raised |-> FALSE,
              res |-> [success |-> TRUE, message |-> "",
                       correct_count |-> row.score,
                       total_questions |-> row.max_score,
                       percentage |-> row.percentage,
                       question_results |-> question_results,
                       new_achievements |-> new_achievements,
                       topic_id |-> quiz_data.topic_id,
                       time_spent |-> row.time_spent],
              tasks |-> Dispatch(notification_service).tasks]

-----------------------------------------------------------------------------
(* what submit_answer, skip_question and complete_quiz return *)

\* the failures of the data store during complete_quiz: "flush" is a statement
\* that raises before the first commit (the user query, the INSERT flushed by
\* the count query, the load of user.achievements), "commit" is the commit of
\* the results raising, "last_active_commit" is the commit after it raising
DbFaults == {"flush", "commit", "last_active_commit"}

\* the tables with the TestResult flushed on its own before the commit
TransactionRowFirst(tr, ach, new_tr, new_ach, fault) ==
    IF fault = "flush" THEN [tr |-> tr, ach |-> ach]
    ELSE IF fault = "commit" THEN [tr |-> new_tr, ach |-> ach]
    ELSE [tr |-> new_tr, ach |-> new_ach]

\* the tables after the with-block of complete_quiz is left by an exception:
\* get_session rolls back what is not committed, and the TestResult and the
\* Achievements are added to one session and committed by one commit
Transaction(tr, ach, new_tr, new_ach, fault) ==
    IF fault \in {"flush", "commit"} THEN [tr |-> tr, ach |-> ach]
    ELSE [tr |-> new_tr, ach |-> new_ach]

\* complete_quiz(user_id) when the data store fails with fault: the exception
\* leaves the function before the notification and before the del
CompleteQuizFaulting(aq, tr, ach, u, t, fault) ==
    LET done == CompleteQuizOn(aq, tr, ach, u, t)
        unchanged == [aq |-> aq, tr |-> tr, ach |-> ach, raised |-> TRUE,
                      res |-> NoResult, tasks |-> 0]
    IN  IF ~HasQuiz(aq, u) \/ done.raised THEN done
        ELSE IF u \notin DbUsers
        THEN IF fault = "flush" THEN unchanged ELSE done
        ELSE LET tables == Transaction(tr, ach, done.tr, done.ach, fault)
             IN  [aq |-> aq, tr |-> tables.tr, ach |-> tables.ach,
                  raised |-> TRUE, res |-> NoResult, tasks |-> 0]

\* success, is_completed, message: the keys of the returned dict; result: the
\* dict of complete_quiz inside it; raised: the call ended in an exception
Return(success, is_completed, message, result, raised) ==
    [success |-> success, is_completed |-> is_completed, message |-> message,
     result |-> result, raised |-> raised]

\* The latest call of start_quiz, of restore_active_quizzes or of a method that
\* ran complete_quiz. op: the method; user: its user_id; success, message:
\* these keys of the dict start_quiz or complete_quiz returned; raised: it
\* ended in an exception; timeout: it found a deadline passed; had_index: the
\* current_question of the session the user had when it began (-1: none)
Call(op, u, success, message, raised, timeout, had_index) ==
    [op |-> op, user |-> u, success |-> success, message |-> message,
     raised |-> raised, timeout |-> timeout, had_index |-> had_index]

NoCall == Call("none", 0, FALSE, "", FALSE, FALSE, -1)

-----------------------------------------------------------------------------
(* check_achievements(session, user_id, ...) inside a caller's ORM session *)

\* The ORM session as check_achievements sees it: user.achievements is loaded
\* from the table on first access and then kept on the User object;
\* session.add(Achievement(user_id=...)) puts a row in the session and leaves
\* the loaded collection as it is.
NewOrmSession == [loaded |-> FALSE, names |-> {}, pending |-> <<>>]

\* one call: the session it leaves and the list it returns
CheckAchievements(sess, tr, ach, u, percentage) ==
    IF u \notin DbUsers
    THEN [sess |-> sess, new_achievements |-> <<>>]
    ELSE
    LET existing_achievements ==
            IF sess.loaded THEN sess.names
            ELSE SeqToSet(ach[u]) \cup SeqToSet(sess.pending)
        new_achievements ==
            Granted(AchievementsToCheck(percentage, Len(tr[u])),
                    existing_achievements)
    IN  [sess |-> [loaded |-> TRUE, names |-> existing_achievements,
                   pending |-> sess.pending \o new_achievements],
         new_achievements |-> new_achievements]

RECURSIVE RunEvaluator(_, _, _, _, _, _)
\* the calls of one ORM session, one per element of percentages
RunEvaluator(sess, tr, ach, u, percentages, returned) ==
    IF percentages = <<>> THEN [sess |-> sess, returned |-> returned]
    ELSE LET call == CheckAchievements(sess, tr, ach, u, Head(percentages))
         IN  RunEvaluator(call.sess, tr, ach, u, Tail(percentages),
                          Append(returned, call.new_achievements))

NoRepeat(s) == \A i, j \in 1..Len(s) : i # j => s[i] # s[j]

RECURSIVE Concat(_)
Concat(ss) == IF ss = <<>> THEN <<>> ELSE Head(ss) \o Concat(Tail(ss))

PercentageInputs == {0, FullPercentage}

ArgLists == UNION {[1..n -> PercentageInputs] : n \in 1..MaxEvalCalls}

NoEvaluation == [user |-> 0, returned |-> <<>>]

-----------------------------------------------------------------------------
(* persistence of the active sessions *)

NoFile == [absent |-> TRUE]

\* a file just opened with mode 'w': created or truncated, nothing written
EmptyFile == [empty |-> TRUE]

\* a file whose bytes come from more than one write, or from a write that
\* stopped half way: not the encoding of any value
TornFile == [torn |-> TRUE]

\* a file damaged on the disk while the process was down
DamagedFile == [damaged |-> TRUE]

\* json.load succeeds on the file
Readable(f) == f \notin {NoFile, EmptyFile, TornFile, DamagedFile}

\* the callers of save_active_quizzes: the thread asyncio.to_thread starts
\* for the auto-save loop, and HistoryBot.shutdown on the loop's own thread
Passes == {"timer", "shutdown"}

\* the locals of one call of save_active_quizzes
IdlePass == [step |-> "idle", keys |-> {}, todo |-> <<>>, size |-> 0, cur |-> 0,
             save_data |-> NoFile, handle |-> "none", saved |-> {}, failed |-> {},
             runs |-> 0]

\* datetime.isoformat() and datetime.fromisoformat(): the text of an instant
IsoFormat(t) == <<"iso", t>>
FromIsoFormat(text) == text[2]

RECURSIVE JsonOf(_)
\* the JSON text json.dump writes for a Python value: a number, a string,
\* null, or an array of such texts
JsonOf(v) ==
    CASE v[1] = "int" -> <<"number", v[2]>>
      [] v[1] = "str" -> <<"string", v[2]>>
      [] v[1] = "list" -> <<"array", [i \in 1..Len(v[2]) |-> JsonOf(v[2][i])]>>
      [] OTHER -> <<"null">>

RECURSIVE PyOf(_)
\* the Python value json.load builds from a JSON text
PyOf(j) ==
    CASE j[1] = "number" -> PyInt(j[2])
      [] j[1] = "string" -> PyStr(j[2])
      [] j[1] = "array" -> PyList([i \in 1..Len(j[2]) |-> PyOf(j[2][i])])
      [] OTHER -> PyNone

\* json.dump(save_data): the answers and the correct answers as JSON texts
JsonDump(save_data) ==
    [save_data EXCEPT
        !.answers = [k \in DOMAIN save_data.answers |-> JsonOf(save_data.answers[k])],
        !.questions =
            [i \in DOMAIN save_data.questions |->
                [save_data.questions[i] EXCEPT
                    !.correct_answer =
                        [n \in DOMAIN save_data.questions[i].correct_answer |->
                            JsonOf(save_data.questions[i].correct_answer[n])]]]]

\* json.load(f) with every array read back as a list of strings
JsonLoadStringly(text) ==
    [text EXCEPT
        !.answers = [k \in DOMAIN text.answers |->
                        LET v == PyOf(text.answers[k])
                        IN  IF IsList(v) THEN PyList(StrEach(v[2])) ELSE v],
        !.questions =
            [i \in DOMAIN text.questions |->
                [text.questions[i] EXCEPT
                    !.correct_answer =
                        [n \in DOMAIN text.questions[i].correct_answer |->
                            PyOf(text.questions[i].correct_answer[n])]]]]

\* json.load(f): the dict of Python values
JsonLoad(text) ==
    [text EXCEPT
        !.answers = [k \in DOMAIN text.answers |-> PyOf(text.answers[k])],
        !.questions =
            [i \in DOMAIN text.questions |->
                [text.questions[i] EXCEPT
                    !.correct_answer =
                        [n \in DOMAIN text.questions[i].correct_answer |->
                            PyOf(text.questions[i].correct_answer[n])]]]]

\* _prepare_quiz_data_for_save
PrepareQuizDataForSave(quiz_data, t) ==
    [topic_id |-> quiz_data.topic_id,
     questions |-> quiz_data.questions,
     current_question |-> quiz_data.current_question,
     answers |-> quiz_data.answers,
     start_time |-> IsoFormat(quiz_data.start_time),
     end_time |-> IsoFormat(quiz_data.end_time),
     time_limit |-> quiz_data.time_limit,
     is_completed |-> quiz_data.is_completed,
     saved_at |-> IsoFormat(t),
     version |-> "1.0"]

\* _restore_quiz_data_from_save
RestoreQuizDataFromSave(save_data) ==
    [topic_id |-> save_data.topic_id,
     questions |-> save_data.questions,
     current_question |-> save_data.current_question,
     answers |-> save_data.answers,
     start_time |-> FromIsoFormat(save_data.start_time),
     end_time |-> FromIsoFormat(save_data.end_time),
     time_limit |-> save_data.time_limit,
     is_completed |-> save_data.is_completed]

\* a file judged against the time it was saved at instead of the present
FileExpiredWhenSaved(f, t) ==
    Readable(f) /\ RestoreQuizDataFromSave(f).end_time < FromIsoFormat(f.saved_at)

\* the file restore_active_quizzes deletes as expired
FileExpired(f, t) == Readable(f) /\ RestoreQuizDataFromSave(f).end_time < t

-----------------------------------------------------------------------------
(* the engine's operations *)

Steps == {1200}

Expired(quiz_data, t) == t > quiz_data.end_time

HadIndex(u) ==
    IF HasQuiz(active_quizzes, u) THEN active_quizzes[u].current_question ELSE -1

\* the number of sessions in the store
ActiveCount == Cardinality({u \in Users : HasQuiz(active_quizzes, u)})

\* time passes
Tick(d) ==
    /\ ticks < MaxTicks
    /\ now' = now + d
    /\ ticks' = ticks + 1
    /\ UNCHANGED <<active_quizzes, started, restarts, test_results, achievements, files,
                   last, evaluated, eval_calls>>
    /\ UNCHANGED cache_vars
    /\ UNCHANGED question_bank
    /\ UNCHANGED fault_vars
    /\ UNCHANGED snapshot_vars
    /\ UNCHANGED notified

\* start_quiz without the check for a topic that has no questions
StartQuizUnguarded(u, topic_id, question_count) ==
    /\ started < MaxStarts
    /\ HasQuiz(active_quizzes, u) \/ ActiveCount < MaxActive
    /\ started' = started + 1
    /\ LET questions == QuestionsOf(topic_id)
           selected_count == Min(question_count, Cardinality(questions))
       IN  /\ \E selected_questions \in Samples(questions, selected_count) :
                 active_quizzes' =
                     [active_quizzes EXCEPT ![u] =
                         NewQuiz(topic_id, selected_questions, question_count, now)]
           /\ last' = Call("start_quiz", u, TRUE, "", FALSE, FALSE, HadIndex(u))
    /\ UNCHANGED <<now, ticks, restarts, test_results, achievements, files,
                   evaluated, eval_calls>>
    /\ UNCHANGED cache_vars
    /\ UNCHANGED question_bank
    /\ UNCHANGED fault_vars
    /\ UNCHANGED snapshot_vars
    /\ UNCHANGED notified

\* start_quiz that keeps the session a user already has
\* (active_quizzes.setdefault(user_id, quiz_data))
StartQuizKeeping(u, topic_id, question_count) ==
    /\ started < MaxStarts
    /\ HasQuiz(active_quizzes, u) \/ ActiveCount < MaxActive
    /\ started' = started + 1
    /\ LET questions == QuestionsOf(topic_id)
           selected_count == Min(question_count, Cardinality(questions))
       IN  IF questions = {}
           THEN /\ UNCHANGED active_quizzes
                /\ last' = Call("start_quiz", u, FALSE, "no questions", FALSE,
                                FALSE, HadIndex(u))
           ELSE /\ \E selected_questions \in Samples(questions, selected_count) :
                      active_quizzes' =
                          IF HasQuiz(active_quizzes, u) THEN active_quizzes
                          ELSE [active_quizzes EXCEPT ![u] =
                                  NewQuiz(topic_id, selected_questions,
                                          question_count, now)]
                /\ last' = Call("start_quiz", u, TRUE, "", FALSE, FALSE, HadIndex(u))
    /\ UNCHANGED <<now, ticks, restarts, test_results, achievements, files,
                   evaluated, eval_calls>>
    /\ UNCHANGED cache_vars
    /\ UNCHANGED question_bank
    /\ UNCHANGED fault_vars
    /\ UNCHANGED snapshot_vars
    /\ UNCHANGED notified

\* start_quiz(user_id, topic_id, question_count); a topic without questions
\* returns success False and leaves the store as it is
StartQuiz(u, topic_id, question_count) ==
    /\ started < MaxStarts
    /\ HasQuiz(active_quizzes, u) \/ ActiveCount < MaxActive
    /\ started' = started + 1
    /\ LET questions == QuestionsOf(topic_id)
           selected_count == Min(question_count, Cardinality(questions))
       IN  IF questions = {}
           THEN /\ UNCHANGED active_quizzes
                /\ last' = Call("start_quiz", u, FALSE, "no questions", FALSE,
                                FALSE, HadIndex(u))
           ELSE /\ \E selected_questions \in Samples(questions, selected_count) :
                      active_quizzes' =
                          [active_quizzes EXCEPT ![u] =
                              NewQuiz(topic_id, selected_questions, question_count, now)]
                /\ last' = Call("start_quiz", u, TRUE, "", FALSE, FALSE, HadIndex(u))
    /\ UNCHANGED <<now, ticks, restarts, test_results, achievements, files,
                   evaluated, eval_calls>>
    /\ UNCHANGED cache_vars
    /\ UNCHANGED question_bank
    /\ UNCHANGED fault_vars
    /\ UNCHANGED snapshot_vars
    /\ UNCHANGED notified

NoQuestion == [id |-> 0, correct_answer |-> <<>>, question_type |-> "none"]

\* what get_current_question(user_id) returns on the store aq at time t
\* (NoQuestion for None)
CurrentQuestion(aq, u, t) ==
    IF ~HasQuiz(aq, u) THEN NoQuestion
    ELSE IF Expired(aq[u], t) THEN NoQuestion
    ELSE IF aq[u].current_question >= Len(aq[u].questions) THEN NoQuestion
    ELSE aq[u].questions[aq[u].current_question + 1]

\* get_current_question(user_id) changes the store in one case: a passed
\* deadline sets is_completed
GetCurrentQuestion(u) ==
    /\ HasQuiz(active_quizzes, u)
    /\ Expired(active_quizzes[u], now)
    /\ active_quizzes' = [active_quizzes EXCEPT ![u].is_completed = TRUE]
    /\ UNCHANGED <<now, ticks, started, restarts, test_results, achievements, files, last,
                   evaluated, eval_calls>>
    /\ UNCHANGED cache_vars
    /\ UNCHANGED question_bank
    /\ UNCHANGED fault_vars
    /\ UNCHANGED snapshot_vars
    /\ UNCHANGED notified

\* the end of submit_answer and skip_question when they call complete_quiz
\* on the store aq: {"success": True, "is_completed": True, "result": result}
ThenComplete(aq, tr, ach, u, t, message) ==
    LET done == CompleteQuizOn(aq, tr, ach, u, t)
    IN  [aq |-> done.aq, tr |-> done.tr, ach |-> done.ach, completes |-> TRUE,
         tasks |-> done.tasks,
         return |-> Return(~done.raised, ~done.raised,
                           IF done.raised THEN "" ELSE message,
                           done.res, done.raised)]

\* a return without a call of complete_quiz
Plain(aq, tr, ach, success, message) ==
    [aq |-> aq, tr |-> tr, ach |-> ach, completes |-> FALSE, tasks |-> 0,
     return |-> Return(success, FALSE, message, NoResult, FALSE)]

\* the answer submit_answer stores (lines 502-508)
NormalizedAnswer(question, answer) ==
    IF question.question_type = "sequence"
    THEN IF IsList(answer) THEN PyList(StrEach(answer[2])) ELSE answer
    ELSE answer

\* submit_answer that sets is_completed with every answer it records
SubmitAnswerFlaggingEarly(aq, tr, ach, u, question_id, answer, t) ==
    IF ~HasQuiz(aq, u) THEN Plain(aq, tr, ach, FALSE, "no active quiz")
    ELSE
    LET quiz_data == aq[u]
        question_index == quiz_data.current_question
    IN  IF Expired(quiz_data, t)
        THEN ThenComplete([aq EXCEPT ![u].is_completed = TRUE], tr, ach, u, t,
                          "time is up")
        ELSE IF question_index >= Len(quiz_data.questions)
        THEN Plain(aq, tr, ach, FALSE, "no more questions")
        ELSE
        LET current_question == quiz_data.questions[question_index + 1]
            answered ==
                [quiz_data EXCEPT
                    !.answers = DictSet(@, Key(current_question.id),
                                        NormalizedAnswer(current_question, answer)),
                    !.current_question = @ + 1,
                    !.is_completed = TRUE]
        IN  IF answered.current_question >= Len(answered.questions)
            THEN ThenComplete([aq EXCEPT ![u] = answered], tr, ach, u, t, "")
            ELSE Plain([aq EXCEPT ![u] = answered], tr, ach, TRUE, "")

\* submit_answer(user_id, question_id, answer) on the store aq and the tables
\* tr and ach at time t: the store and tables it leaves and what it returns
SubmitAnswerOn(aq, tr, ach, u, question_id, answer, t) ==
    IF ~HasQuiz(aq, u) THEN Plain(aq, tr, ach, FALSE, "no active quiz")
    ELSE
    LET quiz_data == aq[u]
        question_index == quiz_data.current_question
    IN  IF Expired(quiz_data, t)
        THEN ThenComplete([aq EXCEPT ![u].is_completed = TRUE], tr, ach, u, t,
                          "time is up")
        ELSE IF question_index >= Len(quiz_data.questions)
        THEN Plain(aq, tr, ach, FALSE, "no more questions")
        ELSE
        LET current_question == quiz_data.questions[question_index + 1]
            answered ==
                [quiz_data EXCEPT
                    !.answers = DictSet(@, Key(current_question.id),
                                        NormalizedAnswer(current_question, answer)),
                    !.current_question = @ + 1]
        IN  IF answered.current_question >= Len(answered.questions)
            THEN ThenComplete([aq EXCEPT ![u] = [answered EXCEPT !.is_completed = TRUE]],
                              tr, ach, u, t, "")
            ELSE Plain([aq EXCEPT ![u] = answered], tr, ach, TRUE, "")

\* skip_question(user_id), likewise
SkipQuestionOn(aq, tr, ach, u, t) ==
    IF ~HasQuiz(aq, u) THEN Plain(aq, tr, ach, FALSE, "no active quiz")
    ELSE
    LET quiz_data == aq[u]
        question_index == quiz_data.current_question
    IN  IF Expired(quiz_data, t)
        THEN ThenComplete([aq EXCEPT ![u].is_completed = TRUE], tr, ach, u, t,
                          "time is up")
        ELSE IF question_index >= Len(quiz_data.questions)
        THEN Plain(aq, tr, ach, FALSE, "no more questions")
        ELSE
        LET skipped == [quiz_data EXCEPT !.current_question = @ + 1]
        IN  IF skipped.current_question >= Len(skipped.questions)
            THEN ThenComplete([aq EXCEPT ![u] = [skipped EXCEPT !.is_completed = TRUE]],
                              tr, ach, u, t, "")
            ELSE Plain([aq EXCEPT ![u] = skipped], tr, ach, TRUE, "")

\* the state after a call whose effect is the record out
Effect(op, u, out) ==
    /\ active_quizzes' = out.aq
    /\ test_results' = out.tr
    /\ achievements' = out.ach
    /\ notified' = notified + out.tasks
    /\ last' = IF out.completes
               THEN Call(op, u, out.return.result.success,
                         out.return.result.message, out.return.raised,
                         HasQuiz(active_quizzes, u) /\ Expired(active_quizzes[u], now),
                         HadIndex(u))
               ELSE last

\* the question_id the gateway passes to submit_answer: the id of the question
\* it has shown, which is the current one (question 1 when there is none)
AskedIds(u) ==
    IF /\ HasQuiz(active_quizzes, u)
       /\ active_quizzes[u].current_question < Len(active_quizzes[u].questions)
    THEN {active_quizzes[u].questions[active_quizzes[u].current_question + 1].id}
    ELSE {1}

TypeOf(question_id) == (CHOOSE q \in Bank : q.id = question_id).question_type

SubmitAnswer(u, question_id, answer) ==
    /\ Effect("submit_answer", u,
              SubmitAnswerOn(active_quizzes, test_results, achievements, u,
                             question_id, answer, now))
    /\ UNCHANGED <<now, ticks, started, restarts, files, evaluated, eval_calls>>
    /\ UNCHANGED cache_vars
    /\ UNCHANGED question_bank
    /\ UNCHANGED fault_vars
    /\ UNCHANGED snapshot_vars

SkipQuestion(u) ==
    /\ Effect("skip_question", u,
              SkipQuestionOn(active_quizzes, test_results, achievements, u, now))
    /\ UNCHANGED <<now, ticks, started, restarts, files, evaluated, eval_calls>>
    /\ UNCHANGED cache_vars
    /\ UNCHANGED question_bank
    /\ UNCHANGED fault_vars
    /\ UNCHANGED snapshot_vars

\* complete_quiz(user_id), called by the gateway
CompleteQuiz(u) ==
    /\ LET done == CompleteQuizOn(active_quizzes, test_results, achievements, u, now)
       IN  Effect("complete_quiz", u,
                  [aq |-> done.aq, tr |-> done.tr, ach |-> done.ach,
                   completes |-> TRUE, tasks |-> done.tasks,
                   return |-> Return(done.res.success, FALSE, done.res.message,
                                     done.res, done.raised)])
    /\ UNCHANGED <<now, ticks, started, restarts, files, evaluated, eval_calls>>
    /\ UNCHANGED cache_vars
    /\ UNCHANGED question_bank
    /\ UNCHANGED fault_vars
    /\ UNCHANGED snapshot_vars

\* complete_quiz(user_id) during which the data store fails
CompleteQuizFault(u, fault) ==
    /\ faults < MaxFaults
    /\ HasQuiz(active_quizzes, u)
    /\ faults' = faults + 1
    /\ LET done == CompleteQuizFaulting(active_quizzes, test_results, achievements,
                                        u, now, fault)
       IN  Effect("complete_quiz", u,
                  [aq |-> done.aq, tr |-> done.tr, ach |-> done.ach,
                   completes |-> TRUE, tasks |-> done.tasks,
                   return |-> Return(done.res.success, FALSE, done.res.message,
                                     done.res, done.raised)])
    /\ UNCHANGED <<now, ticks, started, restarts, files, evaluated, eval_calls,
                   notification_service>>
    /\ UNCHANGED cache_vars
    /\ UNCHANGED question_bank
    /\ UNCHANGED snapshot_vars

\* bot.py sets quiz_service.notification_service after both are constructed,
\* before the handlers are registered and the first update is served
Wire(mode) ==
    /\ notification_service = "none"
    /\ started = 0
    /\ mode # "none"
    /\ notification_service' = mode
    /\ UNCHANGED <<active_quizzes, now, ticks, started, restarts, test_results,
                   achievements, files, last, evaluated, eval_calls, notified, faults>>
    /\ UNCHANGED cache_vars
    /\ UNCHANGED question_bank
    /\ UNCHANGED snapshot_vars

\* save_active_quizzes run with nothing in between, as HistoryBot.shutdown
\* calls it on the loop's thread when no pass of the worker thread is
\* running: one file per active session, then _cleanup_old_quiz_files
\* removes the files of the other users
SaveActiveQuizzes ==
    /\ files' = [u \in Users |->
                    IF HasQuiz(active_quizzes, u)
                    THEN JsonDump(PrepareQuizDataForSave(active_quizzes[u], now))
                    ELSE NoFile]
    /\ UNCHANGED <<active_quizzes, now, ticks, started, restarts, test_results,
                   achievements, last, evaluated, eval_calls>>
    /\ UNCHANGED cache_vars
    /\ UNCHANGED question_bank
    /\ UNCHANGED fault_vars
    /\ UNCHANGED snapshot_vars
    /\ UNCHANGED notified

\* the store restore_active_quizzes fills from the files f at time t
Restored(f, t) ==
    [u \in Users |->
        IF ~Readable(f[u]) \/ FileExpired(f[u], t)
        THEN NoQuiz
        ELSE RestoreQuizDataFromSave(JsonLoad(f[u]))]

\* the process ends and starts again: QuizService() begins with an empty
\* store and bot.start() runs restore_active_quizzes
Restart ==
    /\ restarts < MaxRestarts
    /\ restarts' = restarts + 1
    /\ active_quizzes' = Restored(files, now)
    /\ files' = [u \in Users |->
                    IF FileExpired(files[u], now) \/ ~Readable(files[u])
                    THEN NoFile ELSE files[u]]
    /\ last' = Call("restore_active_quizzes", 0, TRUE,
                    IF \E u \in Users : files[u] # NoFile /\ ~Readable(files[u])
                    THEN "unreadable file removed" ELSE "",
                    FALSE,
                    \E u \in Users : FileExpired(files[u], now), -1)
    /\ UNCHANGED <<now, ticks, started, test_results, achievements, evaluated,
                   eval_calls>>
    /\ UNCHANGED cache_vars
    /\ UNCHANGED question_bank
    /\ UNCHANGED fault_vars
    /\ saver' = [p \in Passes |-> [IdlePass EXCEPT !.runs = saver[p].runs]]
    /\ UNCHANGED <<temp, manifest>>
    /\ UNCHANGED notified

-----------------------------------------------------------------------------
(* save_active_quizzes step by step.  The auto-save loop runs it in a worker
   thread (asyncio.to_thread), so its steps interleave with the engine's
   operations on the loop's thread; stop_auto_save cancels the task that
   awaits the thread, not the thread, so the pass HistoryBot.shutdown runs on
   the loop's thread can overlap a pass still running in the worker. *)

\* the keys of the store in the order the pass iterates them
KeysOf(aq) ==
    LET present == {u \in Users : HasQuiz(aq, u)}
    IN  CHOOSE q \in [1..Cardinality(present) -> present] :
           \A i, j \in 1..Cardinality(present) : i < j => q[i] < q[j]

\* the loop's thread is free and the process is not shutting down
LoopFree == saver["shutdown"].step = "idle"

\* the encoding of d has fewer characters than the encoding of e, for two
\* saves of one session: it has fewer entries in "answers", or as many and
\* "is_completed": true where e has false
Shorter(d, e) ==
    \/ Cardinality(DOMAIN d.answers) < Cardinality(DOMAIN e.answers)
    \/ /\ Cardinality(DOMAIN d.answers) = Cardinality(DOMAIN e.answers)
       /\ d.is_completed
       /\ ~e.is_completed

\* the content of a file that held e after the encoding of d is written from
\* its start through a handle opened before e was written: the bytes of d,
\* followed by what is left of e when d is shorter
Overwrite(e, d) ==
    IF e = EmptyFile \/ e = d THEN d
    ELSE IF ~Readable(e) \/ ~Readable(d) THEN TornFile
    ELSE IF Shorter(d, e) THEN TornFile
    ELSE d

\* the pass p ends: the worker thread returns, the process exits after the
\* pass of shutdown
Ended(p) ==
    [IdlePass EXCEPT !.step = IF p = "timer" THEN "idle" ELSE "exit",
                     !.runs = saver[p].runs]

\* lines 73-94: the manifest is written and renamed, the loop over
\* self.active_quizzes.items() begins
BeginPass(p) ==
    /\ saver[p].step = "idle"
    /\ saver[p].runs < MaxPasses
    /\ LoopFree
    /\ manifest' = [version |-> "1.0", saved_at |-> IsoFormat(now),
                    active_count |-> ActiveCount]
    /\ saver' = [saver EXCEPT ![p] =
                    [IdlePass EXCEPT !.step = "iter",
                                     !.keys = {u \in Users : HasQuiz(active_quizzes, u)},
                                     !.todo = KeysOf(active_quizzes),
                                     !.size = ActiveCount,
                                     !.runs = saver[p].runs + 1]]
    /\ UNCHANGED <<active_quizzes, now, ticks, started, restarts, test_results,
                   achievements, files, last, evaluated, eval_calls, notified, temp>>
    /\ UNCHANGED cache_vars
    /\ UNCHANGED question_bank
    /\ UNCHANGED fault_vars

\* lines 96-99: the iterator yields the next session, or raises RuntimeError
\* when the store has another size than when the loop began (the outer
\* except ends the pass), or is exhausted; _prepare_quiz_data_for_save copies
\* the session's dict, whose "answers" stays the session's own object
TakeNext(p) ==
    /\ saver[p].step = "iter"
    /\ saver' = [saver EXCEPT ![p] =
          IF ActiveCount # saver[p].size THEN Ended(p)
          ELSE IF saver[p].todo = <<>> THEN [saver[p] EXCEPT !.step = "cleanup"]
          ELSE [saver[p] EXCEPT
                   !.step = "open",
                   !.cur = Head(saver[p].todo),
                   !.todo = Tail(saver[p].todo),
                   !.save_data = PrepareQuizDataForSave(
                                    active_quizzes[Head(saver[p].todo)], now)]]
    /\ UNCHANGED <<active_quizzes, now, ticks, started, restarts, test_results,
                   achievements, files, last, evaluated, eval_calls, notified, temp,
                   manifest>>
    /\ UNCHANGED cache_vars
    /\ UNCHANGED question_bank
    /\ UNCHANGED fault_vars

\* lines 102-103: open(user_temp_file, 'w') creates the file or truncates
\* the one of that name
OpenTemp(p) ==
    /\ saver[p].step = "open"
    /\ temp' = [temp EXCEPT ![saver[p].cur] = EmptyFile]
    /\ saver' = [saver EXCEPT ![p].step = "dump", ![p].handle = "temp"]
    /\ UNCHANGED <<active_quizzes, now, ticks, started, restarts, test_results,
                   achievements, files, last, evaluated, eval_calls, notified,
                   manifest>>
    /\ UNCHANGED cache_vars
    /\ UNCHANGED question_bank
    /\ UNCHANGED fault_vars

\* what json.dump encodes: the copied fields, and the answers the session's
\* object has now (once the session has left the store no operation reaches
\* its object: the answers are then taken as they were copied)
Encoded(p) ==
    LET u == saver[p].cur
    IN  IF HasQuiz(active_quizzes, u)
        THEN [saver[p].save_data EXCEPT !.answers = active_quizzes[u].answers]
        ELSE saver[p].save_data

\* the files after the bytes b are written through the handle of pass p
Written(p, b) ==
    LET u == saver[p].cur
    IN  [temp |-> IF saver[p].handle = "temp"
                  THEN [temp EXCEPT ![u] = Overwrite(@, b)] ELSE temp,
         files |-> IF saver[p].handle = "final"
                   THEN [files EXCEPT ![u] = Overwrite(@, b)] ELSE files]

\* line 104 and the end of the with: json.dump writes the encoding and the
\* file is closed
Dump(p) ==
    /\ saver[p].step = "dump"
    /\ LET written == Written(p, JsonDump(Encoded(p)))
       IN  /\ temp' = written.temp
           /\ files' = written.files
    /\ saver' = [saver EXCEPT ![p].step = "replace", ![p].handle = "none"]
    /\ UNCHANGED <<active_quizzes, now, ticks, started, restarts, test_results,
                   achievements, last, evaluated, eval_calls, notified, manifest>>
    /\ UNCHANGED cache_vars
    /\ UNCHANGED question_bank
    /\ UNCHANGED fault_vars

\* a failing per-user step that ends the whole pass
DumpFailsEndingPass(p) ==
    /\ saver[p].step = "dump"
    /\ faults < MaxFaults
    /\ faults' = faults + 1
    /\ LET u == saver[p].cur
           written == Written(p, TornFile)
       IN  /\ temp' = [written.temp EXCEPT ![u] = NoFile]
           /\ files' = written.files
           /\ saver' = [q \in Passes |->
                 IF q = p THEN Ended(p)
                 ELSE IF saver[q].cur = u /\ saver[q].handle = "temp"
                 THEN [saver[q] EXCEPT !.handle = "unlinked"]
                 ELSE saver[q]]
    /\ UNCHANGED <<active_quizzes, now, ticks, started, restarts, test_results,
                   achievements, last, evaluated, eval_calls, notified, manifest,
                   notification_service>>
    /\ UNCHANGED cache_vars
    /\ UNCHANGED question_bank

\* lines 104 and 111-118: json.dump raises after writing a part (a value
\* that is not serializable, a full disk); the except of this user removes
\* the temp file if one of that name exists, and the loop goes on
DumpFails(p) ==
    /\ saver[p].step = "dump"
    /\ faults < MaxFaults
    /\ faults' = faults + 1
    /\ LET u == saver[p].cur
           written == Written(p, TornFile)
       IN  /\ temp' = [written.temp EXCEPT ![u] = NoFile]
           /\ files' = written.files
           /\ saver' = [q \in Passes |->
                 IF q = p
                 THEN [saver[p] EXCEPT !.step = "iter", !.handle = "none",
                                       !.failed = @ \cup {u}]
                 ELSE IF saver[q].cur = u /\ saver[q].handle = "temp"
                 THEN [saver[q] EXCEPT !.handle = "unlinked"]
                 ELSE saver[q]]
    /\ UNCHANGED <<active_quizzes, now, ticks, started, restarts, test_results,
                   achievements, last, evaluated, eval_calls, notified, manifest,
                   notification_service>>
    /\ UNCHANGED cache_vars
    /\ UNCHANGED question_bank

\* lines 107-109: os.replace(user_temp_file, user_final_file) gives the
\* temp file the final name; when no file has the temp name (the other pass
\* renamed or removed it) it raises and the except of this user goes on
ReplaceFinal(p) ==
    /\ saver[p].step = "replace"
    /\ LET u == saver[p].cur
       IN  IF temp[u] # NoFile
           THEN /\ files' = [files EXCEPT ![u] = temp[u]]
                /\ temp' = [temp EXCEPT ![u] = NoFile]
                /\ saver' = [q \in Passes |->
                      IF q = p
                      THEN [saver[p] EXCEPT !.step = "iter", !.saved = @ \cup {u}]
                      ELSE IF saver[q].cur = u /\ saver[q].handle = "temp"
                      THEN [saver[q] EXCEPT !.handle = "final"]
                      ELSE IF saver[q].cur = u /\ saver[q].handle = "final"
                      THEN [saver[q] EXCEPT !.handle = "unlinked"]
                      ELSE saver[q]]
           ELSE /\ saver' = [saver EXCEPT ![p].step = "iter",
                                          ![p].failed = @ \cup {u}]
                /\ UNCHANGED <<files, temp>>
    /\ UNCHANGED <<active_quizzes, now, ticks, started, restarts, test_results,
                   achievements, last, evaluated, eval_calls, notified, manifest>>
    /\ UNCHANGED cache_vars
    /\ UNCHANGED question_bank
    /\ UNCHANGED fault_vars

\* line 121: _cleanup_old_quiz_files removes the files of the users that
\* have no session now, and the pass ends
Cleanup(p) ==
    /\ saver[p].step = "cleanup"
    /\ files' = [u \in Users |->
                    IF HasQuiz(active_quizzes, u) THEN files[u] ELSE NoFile]
    /\ saver' = [q \in Passes |->
          IF q = p THEN Ended(p)
          ELSE IF saver[q].handle = "final" /\ ~HasQuiz(active_quizzes, saver[q].cur)
          THEN [saver[q] EXCEPT !.handle = "unlinked"]
          ELSE saver[q]]
    /\ UNCHANGED <<active_quizzes, now, ticks, started, restarts, test_results,
                   achievements, last, evaluated, eval_calls, notified, temp,
                   manifest>>
    /\ UNCHANGED cache_vars
    /\ UNCHANGED question_bank
    /\ UNCHANGED fault_vars

\* a per-user file is damaged on the disk while the process is down after
\* a shutdown
Damage(u) ==
    /\ faults < MaxFaults
    /\ restarts < MaxRestarts
    /\ saver["shutdown"].step = "exit"
    /\ saver["timer"].step = "idle"
    /\ Readable(files[u])
    /\ faults' = faults + 1
    /\ files' = [files EXCEPT ![u] = DamagedFile]
    /\ UNCHANGED <<active_quizzes, now, ticks, started, restarts, test_results,
                   achievements, last, evaluated, eval_calls, notified, temp,
                   manifest, saver, notification_service>>
    /\ UNCHANGED cache_vars
    /\ UNCHANGED question_bank

\* a caller opens an ORM session (get_session), calls check_achievements once
\* per element of percentages for user u, and leaves the with block: the
\* session commits, or rolls back when the table rejects a repeated name
EvaluatorSession(u, percentages) ==
    /\ eval_calls + Len(percentages) <= MaxEvalCalls
    /\ eval_calls' = eval_calls + Len(percentages)
    /\ LET run == RunEvaluator(NewOrmSession, test_results, achievements, u,
                               percentages, <<>>)
           repeated == ~NoRepeat(achievements[u] \o run.sess.pending)
       IN  /\ evaluated' = [user |-> u, returned |-> run.returned]
           /\ \/ achievements' =
                    [achievements EXCEPT ![u] = @ \o run.sess.pending]
              \/ /\ repeated
                 /\ UNCHANGED achievements
    /\ UNCHANGED <<active_quizzes, now, ticks, started, restarts, test_results,
                   files, last>>
    /\ UNCHANGED cache_vars
    /\ UNCHANGED question_bank
    /\ UNCHANGED fault_vars
    /\ UNCHANGED snapshot_vars
    /\ UNCHANGED notified

-----------------------------------------------------------------------------
(* CacheService *)

CacheKeys == {"a", "b"}
Callers == {1, 2, 3}          \* tasks that call get_or_set, once each
LockIds == 1..Cardinality(Callers)

\* what a factory returns: a value, or None
FactoryValues == {"v", "None"}

NoEntry == [value |-> "", expired |-> FALSE, present |-> FALSE]
NoLock == 0
Nobody == 0
NoValue == ""

\* an entry of _cache: expired stands for expires_at being in the past
Entry(value) == [value |-> value, expired |-> FALSE, present |-> TRUE]

\* the value get(key) returns on the cache c
CacheGet(c, key) ==
    IF c[key].present /\ ~c[key].expired THEN c[key].value ELSE "None"

\* the cache after get(key): an expired entry is removed
CacheAfterGet(c, key) ==
    IF c[key].present /\ c[key].expired THEN [c EXCEPT ![key] = NoEntry] ELSE c

\* asyncio.Lock.acquire returns at once when the lock is free and no task
\* waits for it
LockFree(id) ==
    /\ lock_owner[id] = Nobody
    /\ \A c \in Callers : ~(pc[c] = "wait" /\ my_lock[c] = id)

\* get_or_set(key, factory_func) from its call to its first suspension
GetOrSetCall(c, key) ==
    /\ pc[c] = "idle"
    /\ call_key' = [call_key EXCEPT ![c] = key]
    /\ cache' = CacheAfterGet(cache, key)
    /\ IF CacheGet(cache, key) # "None"
       THEN /\ ret' = [ret EXCEPT ![c] = CacheGet(cache, key)]
            /\ pc' = [pc EXCEPT ![c] = "done"]
            /\ UNCHANGED <<locks, lock_owner, lock_made, my_lock, factory_runs>>
       ELSE
       LET made == locks[key] = NoLock
           id == IF made THEN lock_made + 1 ELSE locks[key]
       IN  /\ locks' = [locks EXCEPT ![key] = id]
           /\ lock_made' = IF made THEN lock_made + 1 ELSE lock_made
           /\ my_lock' = [my_lock EXCEPT ![c] = id]
           /\ UNCHANGED ret
           /\ IF made \/ LockFree(id)
              THEN \* the lock is taken and the second get misses as well
                   /\ lock_owner' = [lock_owner EXCEPT ![id] = c]
                   /\ pc' = [pc EXCEPT ![c] = "factory"]
                   /\ factory_runs' = [factory_runs EXCEPT ![key] = @ + 1]
              ELSE /\ pc' = [pc EXCEPT ![c] = "wait"]
                   /\ UNCHANGED <<lock_owner, factory_runs>>
    /\ UNCHANGED cleanup_task
    /\ UNCHANGED engine_vars

\* a waiting caller gets the lock and checks the cache again under it
GetOrSetAcquire(c) ==
    /\ pc[c] = "wait"
    /\ lock_owner[my_lock[c]] = Nobody
    /\ cache' = CacheAfterGet(cache, call_key[c])
    /\ IF CacheGet(cache, call_key[c]) # "None"
       THEN /\ ret' = [ret EXCEPT ![c] = CacheGet(cache, call_key[c])]
            /\ pc' = [pc EXCEPT ![c] = "done"]
            /\ UNCHANGED <<lock_owner, factory_runs>>
       ELSE /\ lock_owner' = [lock_owner EXCEPT ![my_lock[c]] = c]
            /\ pc' = [pc EXCEPT ![c] = "factory"]
            /\ factory_runs' = [factory_runs EXCEPT ![call_key[c]] = @ + 1]
            /\ UNCHANGED ret
    /\ UNCHANGED <<locks, lock_made, my_lock, call_key, cleanup_task>>
    /\ UNCHANGED engine_vars

\* the factory returns: set(key, value), return value, release the lock
GetOrSetFinish(c, value) ==
    /\ pc[c] = "factory"
    /\ cache' = [cache EXCEPT ![call_key[c]] = Entry(value)]
    /\ ret' = [ret EXCEPT ![c] = value]
    /\ lock_owner' = [lock_owner EXCEPT ![my_lock[c]] = Nobody]
    /\ pc' = [pc EXCEPT ![c] = "done"]
    /\ UNCHANGED <<locks, lock_made, my_lock, call_key, factory_runs, cleanup_task>>
    /\ UNCHANGED engine_vars

\* set(key, value, ttl)
CacheSet(key, value) ==
    /\ cache' = [cache EXCEPT ![key] = Entry(value)]
    /\ UNCHANGED <<locks, lock_owner, lock_made, pc, my_lock, call_key, ret,
                   factory_runs, cleanup_task>>
    /\ UNCHANGED engine_vars

\* get(key) by another caller
CacheGetCall(key) ==
    /\ cache' = CacheAfterGet(cache, key)
    /\ UNCHANGED <<locks, lock_owner, lock_made, pc, my_lock, call_key, ret,
                   factory_runs, cleanup_task>>
    /\ UNCHANGED engine_vars

\* invalidate(key)
Invalidate(key) ==
    /\ cache' = [cache EXCEPT ![key] = NoEntry]
    /\ UNCHANGED <<locks, lock_owner, lock_made, pc, my_lock, call_key, ret,
                   factory_runs, cleanup_task>>
    /\ UNCHANGED engine_vars

\* time passes the expires_at of an entry
CacheExpire(key) ==
    /\ cache[key].present /\ ~cache[key].expired
    /\ cache' = [cache EXCEPT ![key].expired = TRUE]
    /\ UNCHANGED <<locks, lock_owner, lock_made, pc, my_lock, call_key, ret,
                   factory_runs, cleanup_task>>
    /\ UNCHANGED engine_vars

\* one round of _cleanup_loop: expired keys leave _cache and _locks
CleanupLoop ==
    /\ cleanup_task
    /\ cache' = [k \in CacheKeys |->
                    IF cache[k].present /\ cache[k].expired THEN NoEntry ELSE cache[k]]
    /\ locks' = [k \in CacheKeys |->
                    IF cache[k].present /\ cache[k].expired THEN NoLock ELSE locks[k]]
    /\ UNCHANGED <<lock_owner, lock_made, pc, my_lock, call_key, ret,
                   factory_runs, cleanup_task>>
    /\ UNCHANGED engine_vars

\* stop(): the cleanup task is cancelled, _cache and _locks are cleared
CacheStop ==
    /\ cleanup_task' = FALSE
    /\ cache' = [k \in CacheKeys |-> NoEntry]
    /\ locks' = [k \in CacheKeys |-> NoLock]
    /\ UNCHANGED <<lock_owner, lock_made, pc, my_lock, call_key, ret, factory_runs>>
    /\ UNCHANGED engine_vars

-----------------------------------------------------------------------------
(* The gateway: the quiz buttons of handle_test_button and show_question *)

\* the option_index values the answer buttons carry
OptionInputs == {0, 1}

\* the question_id a button carries: the id of a question of the session it
\* was shown for, which need not be the current one any more
ButtonIds(u) ==
    IF HasQuiz(active_quizzes, u)
    THEN {active_quizzes[u].questions[i].id :
             i \in 1..Len(active_quizzes[u].questions)}
    ELSE {1}

\* the ids on the buttons of the keyboards of the given question types
Shown(u, question_types) ==
    {question_id \in ButtonIds(u) : TypeOf(question_id) \in question_types}

\* single_question_keyboard and multiple_question_keyboard hold the
\* quiz_answer_ buttons, sequence_question_keyboard the quiz_seq_ and
\* quiz_reset_ buttons, the last two keyboards a quiz_confirm_ button
AnswerKeyboards == {"single", "multiple"}
SequenceKeyboards == {"sequence"}
ConfirmKeyboards == {"multiple", "sequence"}

\* the store after get_current_question(user_id) at time t
Seen(aq, u, t) ==
    IF HasQuiz(aq, u) /\ Expired(aq[u], t)
    THEN [aq EXCEPT ![u].is_completed = TRUE]
    ELSE aq

\* answers.get(str(question_id), [])
Selected(quiz_data, question_id) ==
    IF Key(question_id) \in DOMAIN quiz_data.answers
    THEN quiz_data.answers[Key(question_id)]
    ELSE PyList(<<>>)

\* list.remove(x): the list without the first element equal to x
Remove(s, x) ==
    LET first == CHOOSE i \in 1..Len(s) :
                    s[i] = x /\ \A j \in 1..(i - 1) : s[j] # x
    IN  [i \in 1..(Len(s) - 1) |-> IF i < first THEN s[i] ELSE s[i + 1]]

Holds(s, x) == \E i \in 1..Len(s) : s[i] = x

\* button quiz_answer_ that does not compare the id it carries with the id of
\* the current question
AnswerButtonUnchecked(aq, tr, ach, u, question_id, option_index, t) ==
    LET seen == Seen(aq, u, t)
        current_question == CurrentQuestion(aq, u, t)
    IN  IF current_question = NoQuestion
        THEN Plain(seen, tr, ach, TRUE, "")
        ELSE IF current_question.question_type = "single"
        THEN SubmitAnswerOn(seen, tr, ach, u, question_id, PyInt(option_index), t)
        ELSE Plain(seen, tr, ach, TRUE, "")

\* button quiz_answer_<question_id>_<option_index>: a single question is
\* submitted at once, a multiple question has the option toggled in
\* answers[str(question_id)]
AnswerButtonOn(aq, tr, ach, u, question_id, option_index, t) ==
    LET seen == Seen(aq, u, t)
        current_question == CurrentQuestion(aq, u, t)
    IN  IF current_question = NoQuestion \/ current_question.id # question_id
        THEN Plain(seen, tr, ach, TRUE, "")
        ELSE IF current_question.question_type = "single"
        THEN SubmitAnswerOn(seen, tr, ach, u, question_id, PyInt(option_index), t)
        ELSE IF current_question.question_type = "multiple"
        THEN LET selected_options == Selected(seen[u], question_id)[2]
                 toggled == IF Holds(selected_options, PyInt(option_index))
                            THEN Remove(selected_options, PyInt(option_index))
                            ELSE Append(selected_options, PyInt(option_index))
             IN  Plain([seen EXCEPT ![u].answers =
                           DictSet(@, Key(question_id), PyList(toggled))],
                       tr, ach, TRUE, "")
        ELSE Plain(seen, tr, ach, TRUE, "")

\* button quiz_seq_<question_id>_<option_index>: the option is appended, as a
\* string, to the sequence in answers[str(question_id)] unless it is there
SequenceButtonOn(aq, tr, ach, u, question_id, option_index, t) ==
    LET seen == Seen(aq, u, t)
        current_question == CurrentQuestion(aq, u, t)
    IN  IF current_question = NoQuestion \/ current_question.id # question_id
        THEN Plain(seen, tr, ach, TRUE, "")
        ELSE
        LET stored == Selected(seen[u], question_id)
            sequence == IF IsList(stored) THEN stored[2] ELSE <<>>
            sequence_str == StrEach(sequence)
        IN  IF Holds(sequence_str, PyStr(option_index))
            THEN Plain(seen, tr, ach, TRUE, "already chosen")
            ELSE Plain([seen EXCEPT ![u].answers =
                           DictSet(@, Key(question_id),
                                   PyList(Append(sequence, PyStr(option_index))))],
                       tr, ach, TRUE, "")

\* button quiz_reset_<question_id>
ResetButtonOn(aq, tr, ach, u, question_id, t) ==
    LET seen == Seen(aq, u, t)
        current_question == CurrentQuestion(aq, u, t)
    IN  IF current_question = NoQuestion \/ current_question.id # question_id
        THEN Plain(seen, tr, ach, TRUE, "")
        ELSE Plain([seen EXCEPT ![u].answers =
                       DictSet(@, Key(question_id), PyList(<<>>))],
                   tr, ach, TRUE, "")

\* button quiz_confirm_<question_id>: the selection is submitted
ConfirmButtonOn(aq, tr, ach, u, question_id, t) ==
    LET seen == Seen(aq, u, t)
        current_question == CurrentQuestion(aq, u, t)
    IN  IF current_question = NoQuestion \/ current_question.id # question_id
        THEN Plain(seen, tr, ach, TRUE, "")
        ELSE SubmitAnswerOn(seen, tr, ach, u, question_id,
                            Selected(seen[u], question_id), t)

\* show_question: without a current question it calls complete_quiz
ShowQuestionOn(aq, tr, ach, u, t) ==
    LET seen == Seen(aq, u, t)
    IN  IF CurrentQuestion(aq, u, t) # NoQuestion
        THEN Plain(seen, tr, ach, TRUE, "")
        ELSE LET done == CompleteQuizOn(seen, tr, ach, u, t)
             IN  [aq |-> done.aq, tr |-> done.tr, ach |-> done.ach,
                  completes |-> TRUE, tasks |-> done.tasks,
                  return |-> Return(done.res.success, FALSE, done.res.message,
                                    done.res, done.raised)]

\* the topics the start buttons carry, and the default_questions_count
\* setting start_quiz falls back on when the handler passes no question_count
GatewayTopics == {1, 2}
GatewayCount == 2

\* one button press: the state after the handler whose effect is out
Handler(op, u, out) ==
    /\ Effect(op, u, out)
    /\ UNCHANGED <<now, ticks, started, restarts, files, evaluated, eval_calls>>
    /\ UNCHANGED cache_vars
    /\ UNCHANGED question_bank
    /\ UNCHANGED fault_vars
    /\ UNCHANGED snapshot_vars

AnswerButton(u, question_id, option_index) ==
    Handler("submit_answer", u,
            AnswerButtonOn(active_quizzes, test_results, achievements, u,
                           question_id, option_index, now))

SequenceButton(u, question_id, option_index) ==
    Handler("submit_answer", u,
            SequenceButtonOn(active_quizzes, test_results, achievements, u,
                             question_id, option_index, now))

ResetButton(u, question_id) ==
    Handler("submit_answer", u,
            ResetButtonOn(active_quizzes, test_results, achievements, u,
                          question_id, now))

ConfirmButton(u, question_id) ==
    Handler("submit_answer", u,
            ConfirmButtonOn(active_quizzes, test_results, achievements, u,
                            question_id, now))

\* button quiz_skip
SkipButton(u) ==
    Handler("skip_question", u,
            SkipQuestionOn(active_quizzes, test_results, achievements, u, now))

ShowQuestion(u) ==
    Handler("complete_quiz", u,
            ShowQuestionOn(active_quizzes, test_results, achievements, u, now))

-----------------------------------------------------------------------------
(* the specifications *)

Init ==
    /\ active_quizzes = [u \in Users |-> NoQuiz]
    /\ now = 0
    /\ ticks = 0
    /\ started = 0
    /\ restarts = 0
    /\ test_results = [u \in Users |-> <<>>]
    /\ achievements = [u \in Users |-> <<>>]
    /\ files = [u \in Users |-> NoFile]
    /\ last = NoCall
    /\ evaluated = NoEvaluation
    /\ eval_calls = 0
    /\ cache = [k \in CacheKeys |-> NoEntry]
    /\ locks = [k \in CacheKeys |-> NoLock]
    /\ lock_owner = [id \in LockIds |-> Nobody]
    /\ lock_made = 0
    /\ pc = [c \in Callers |-> "idle"]
    /\ my_lock = [c \in Callers |-> NoLock]
    /\ call_key = [c \in Callers |-> "a"]
    /\ ret = [c \in Callers |-> NoValue]
    /\ factory_runs = [k \in CacheKeys |-> 0]
    /\ cleanup_task = TRUE
    /\ notification_service = "none"
    /\ notified = 0
    /\ faults = 0
    /\ temp = [u \in Users |-> NoFile]
    /\ manifest = NoFile
    /\ saver = [p \in Passes |-> IdlePass]
    /\ question_bank = Bank

\* the quiz engine as the gateway drives it
Next ==
    \/ \E d \in Steps : Tick(d)
    \/ \E u \in Users, topic_id \in Topics, question_count \in CountInputs :
          StartQuiz(u, topic_id, question_count)
    \/ \E u \in Users : GetCurrentQuestion(u)
    \/ \E u \in Users :
          \E question_id \in AskedIds(u) :
             \E answer \in AnswerInputs(TypeOf(question_id)) :
                SubmitAnswer(u, question_id, answer)
    \/ \E u \in Users : SkipQuestion(u)
    \/ \E u \in Users : CompleteQuiz(u)

Spec == Init /\ [][Next]_vars

\* the engine's calls on the sessions of one topic and one question_count
Session(topic_ids, question_counts) ==
    \/ \E d \in Steps : Tick(d)
    \/ \E u \in Users, topic_id \in topic_ids, question_count \in question_counts :
          StartQuiz(u, topic_id, question_count)
    \/ \E u \in Users : GetCurrentQuestion(u)
    \/ \E u \in Users :
          \E question_id \in AskedIds(u) :
             \E answer \in AnswerInputs(TypeOf(question_id)) :
                SubmitAnswer(u, question_id, answer)
    \/ \E u \in Users : SkipQuestion(u)
    \/ \E u \in Users : CompleteQuiz(u)

\* the engine with callers of check_achievements
NextEvaluator ==
    \/ Session({1}, {1})
    \/ \E u \in Users, percentages \in ArgLists : EvaluatorSession(u, percentages)

SpecEvaluator == Init /\ [][NextEvaluator]_vars

\* the engine with the snapshots of the store and restarts of the process
NextPersistence ==
    \/ Session({2}, {2})
    \/ SaveActiveQuizzes
    \/ Restart

SpecPersistence == Init /\ [][NextPersistence]_vars

\* the state after both users have started a quiz of SnapshotCount questions
\* on topic SnapshotTopic at time 0, with the questions drawn in one order
SnapshotTopic == 2
SnapshotCount == 2

\* the answers the users give while snapshots are taken: one per question
SnapshotAnswers(question_type) ==
    {answer \in AnswerInputs(question_type) :
        answer = PyList(<<PyInt(0)>>) \/ answer = PyList(<<PyInt(0), PyInt(1)>>)}

InitSnapshot ==
    /\ question_bank = Bank
    /\ \E s \in Samples(QuestionsOf(SnapshotTopic), SnapshotCount) :
          /\ s[1].id < s[2].id
          /\ active_quizzes =
                [u \in Users |-> NewQuiz(SnapshotTopic, s, SnapshotCount, 0)]
    /\ now = 0
    /\ ticks = 0
    /\ started = Cardinality(Users)
    /\ restarts = 0
    /\ test_results = [u \in Users |-> <<>>]
    /\ achievements = [u \in Users |-> <<>>]
    /\ files = [u \in Users |-> NoFile]
    /\ last = Call("start_quiz", 2, TRUE, "", FALSE, FALSE, -1)
    /\ evaluated = NoEvaluation
    /\ eval_calls = 0
    /\ cache = [k \in CacheKeys |-> NoEntry]
    /\ locks = [k \in CacheKeys |-> NoLock]
    /\ lock_owner = [id \in LockIds |-> Nobody]
    /\ lock_made = 0
    /\ pc = [c \in Callers |-> "idle"]
    /\ my_lock = [c \in Callers |-> NoLock]
    /\ call_key = [c \in Callers |-> "a"]
    /\ ret = [c \in Callers |-> NoValue]
    /\ factory_runs = [k \in CacheKeys |-> 0]
    /\ cleanup_task = TRUE
    /\ notification_service = "none"
    /\ notified = 0
    /\ faults = 0
    /\ temp = [u \in Users |-> NoFile]
    /\ manifest = NoFile
    /\ saver = [p \in Passes |-> IdlePass]

\* the engine, the passes of save_active_quizzes in the worker thread and at
\* shutdown, and restarts of the process
NextSnapshot ==
    \/ /\ LoopFree
       /\ \E u \in Users :
             \E question_id \in AskedIds(u) :
                \E answer \in SnapshotAnswers(TypeOf(question_id)) :
                   SubmitAnswer(u, question_id, answer)
    \/ LoopFree /\ \E u \in Users : SkipQuestion(u)
    \/ LoopFree /\ \E u \in Users : CompleteQuiz(u)
    \/ \E p \in Passes : BeginPass(p)
    \/ \E p \in Passes : TakeNext(p)
    \/ \E p \in Passes : OpenTemp(p)
    \/ \E p \in Passes : Dump(p)
    \/ \E p \in Passes : DumpFails(p)
    \/ \E p \in Passes : ReplaceFinal(p)
    \/ \E p \in Passes : Cleanup(p)
    \/ \E u \in Users : Damage(u)
    \/ Restart

SpecSnapshot == InitSnapshot /\ [][NextSnapshot]_vars

\* the engine with the notification service and failures of the data store
NextFaults ==
    \/ Session({1}, {2})
    \/ \E mode \in NotifierModes : Wire(mode)
    \/ \E u \in Users, fault \in DbFaults : CompleteQuizFault(u, fault)

SpecFaults == Init /\ [][NextFaults]_vars

\* the cache
NextCache ==
    \/ \E c \in Callers, key \in CacheKeys : GetOrSetCall(c, key)
    \/ \E c \in Callers : GetOrSetAcquire(c)
    \/ \E c \in Callers, value \in FactoryValues : GetOrSetFinish(c, value)
    \/ \E key \in CacheKeys, value \in FactoryValues : CacheSet(key, value)
    \/ \E key \in CacheKeys : CacheGetCall(key)
    \/ \E key \in CacheKeys : Invalidate(key)
    \/ \E key \in CacheKeys : CacheExpire(key)
    \/ CleanupLoop
    \/ CacheStop

SpecCache == Init /\ [][NextCache]_vars

\* sessions started on every topic with every count of LimitCounts
NextLimits ==
    \/ \E d \in Steps : Tick(d)
    \/ \E u \in Users, topic_id \in Topics, question_count \in LimitCounts :
          StartQuiz(u, topic_id, question_count)
    \/ \E u \in Users : CompleteQuiz(u)

SpecLimits == Init /\ [][NextLimits]_vars

\* a row of table TestResult from an earlier completion
PriorRow == [topic_id |-> 1, score |-> 1, max_score |-> 2, percentage |-> 500,
             time_spent |-> 0]

\* the rows of table TestResult and of table Achievement a user of the Data
\* Store has when the bot starts: 8 or 9 earlier completions, 11 rows most of
\* which were inserted from outside, or 10 completions and the achievement
Histories ==
    { [results |-> 8,  names |-> <<"First test">>],
      [results |-> 9,  names |-> <<"First test">>],
      [results |-> 11, names |-> <<"First test">>],
      [results |-> 10, names |-> <<"First test", "History expert">>] }

InitHistory ==
    /\ active_quizzes = [u \in Users |-> NoQuiz]
    /\ now = 0
    /\ ticks = 0
    /\ started = 0
    /\ restarts = 0
    /\ files = [u \in Users |-> NoFile]
    /\ last = NoCall
    /\ evaluated = NoEvaluation
    /\ eval_calls = 0
    /\ cache = [k \in CacheKeys |-> NoEntry]
    /\ locks = [k \in CacheKeys |-> NoLock]
    /\ lock_owner = [id \in LockIds |-> Nobody]
    /\ lock_made = 0
    /\ pc = [c \in Callers |-> "idle"]
    /\ my_lock = [c \in Callers |-> NoLock]
    /\ call_key = [c \in Callers |-> "a"]
    /\ ret = [c \in Callers |-> NoValue]
    /\ factory_runs = [k \in CacheKeys |-> 0]
    /\ cleanup_task = TRUE
    /\ notification_service = "none"
    /\ notified = 0
    /\ faults = 0
    /\ temp = [u \in Users |-> NoFile]
    /\ manifest = NoFile
    /\ saver = [p \in Passes |-> IdlePass]
    /\ question_bank = Bank
    /\ \E h \in Histories :
          /\ test_results = [u \in Users |->
                                IF u \in DbUsers
                                THEN [i \in 1..h.results |-> PriorRow] ELSE <<>>]
          /\ achievements = [u \in Users |-> IF u \in DbUsers THEN h.names ELSE <<>>]

\* the engine on the sessions of topic 1 of a user with a history
NextHistory == Session({1}, {2})

SpecHistory == InitHistory /\ [][NextHistory]_vars

\* the correct_answer lists an import of questions writes
EditInputs == {<<PyInt(0)>>, <<PyInt(1)>>}

\* import of a topic's questions by an administrator: the row with this id
\* gets a new correct_answer
UpdateQuestion(question_id, correct_answer) ==
    /\ \E q \in question_bank : q.id = question_id
    /\ question_bank' =
          {IF q.id = question_id THEN [q EXCEPT !.correct_answer = correct_answer]
           ELSE q : q \in question_bank}
    /\ UNCHANGED <<active_quizzes, now, ticks, started, restarts, test_results,
                   achievements, files, last, evaluated, eval_calls, notified>>
    /\ UNCHANGED cache_vars
    /\ UNCHANGED fault_vars
    /\ UNCHANGED snapshot_vars

\* deletion of a topic by an administrator: its questions go with it
DeleteTopic(topic_id) ==
    /\ QuestionsOf(topic_id) # {}
    /\ question_bank' = question_bank \ QuestionsOf(topic_id)
    /\ UNCHANGED <<active_quizzes, now, ticks, started, restarts, test_results,
                   achievements, files, last, evaluated, eval_calls, notified>>
    /\ UNCHANGED cache_vars
    /\ UNCHANGED fault_vars
    /\ UNCHANGED snapshot_vars

\* the engine on the sessions of topic 1 while an administrator edits it
NextBank ==
    \/ Session({1}, {2})
    \/ \E question_id \in {1, 2}, correct_answer \in EditInputs :
          UpdateQuestion(question_id, correct_answer)
    \/ DeleteTopic(1)

SpecBank == Init /\ [][NextBank]_vars

\* the engine as the buttons of the gateway drive it
NextGateway ==
    \/ \E d \in Steps : Tick(d)
    \/ \E u \in Users, topic_id \in GatewayTopics : StartQuiz(u, topic_id, GatewayCount)
    \/ \E u \in Users :
          \E question_id \in Shown(u, AnswerKeyboards), option_index \in OptionInputs :
             AnswerButton(u, question_id, option_index)
    \/ \E u \in Users :
          \E question_id \in Shown(u, SequenceKeyboards), option_index \in OptionInputs :
             SequenceButton(u, question_id, option_index)
    \/ \E u \in Users :
          \E question_id \in Shown(u, SequenceKeyboards) : ResetButton(u, question_id)
    \/ \E u \in Users :
          \E question_id \in Shown(u, ConfirmKeyboards) : ConfirmButton(u, question_id)
    \/ \E u \in Users : SkipButton(u)
    \/ \E u \in Users : ShowQuestion(u)

SpecGateway == Init /\ [][NextGateway]_vars

-----------------------------------------------------------------------------
(* Properties of the scoring in complete_quiz *)

\* the answer the session quiz_data holds for its i-th question (PyNone: none)
Recorded(quiz_data, i) ==
    DictGet(quiz_data.answers, Key(quiz_data.questions[i].id))

\* is_correct as complete_quiz computes it for the i-th question
Scored(quiz_data, i) ==
    QuestionResult(quiz_data.questions[i], quiz_data.answers).is_correct

\* C1: a question of type multiple with a recorded answer is scored correct
\* exactly when the set of chosen indices equals the set of correct indices.
C1_MultipleSetEquality ==
    \A u \in Users :
        HasQuiz(active_quizzes, u) =>
            LET quiz_data == active_quizzes[u]
            IN  \A i \in 1..Len(quiz_data.questions) :
                    ( /\ quiz_data.questions[i].question_type = "multiple"
                      /\ Recorded(quiz_data, i) # PyNone )
                    => ( Scored(quiz_data, i) <=>
                            SeqToSet(Recorded(quiz_data, i)[2]) =
                            SeqToSet(quiz_data.questions[i].correct_answer) )

\* C2: a question of type single is scored correct if and only if
\* answers[str(question id)] is present and equals correct_answer[0].
C2_SingleScoring ==
    \A u \in Users :
        HasQuiz(active_quizzes, u) =>
            LET quiz_data == active_quizzes[u]
            IN  \A i \in 1..Len(quiz_data.questions) :
                    ( /\ quiz_data.questions[i].question_type = "single"
                      /\ ~ScoreRaises(quiz_data.questions[i], Recorded(quiz_data, i)) )
                    => ( Scored(quiz_data, i) <=>
                            /\ Key(quiz_data.questions[i].id) \in DOMAIN quiz_data.answers
                            /\ quiz_data.answers[Key(quiz_data.questions[i].id)] =
                               quiz_data.questions[i].correct_answer[1] )

\* a session holds a single question answered right and one answered wrong
C2_Witness ==
    \E u \in Users :
        /\ HasQuiz(active_quizzes, u)
        /\ \E i, j \in 1..Len(active_quizzes[u].questions) :
              /\ active_quizzes[u].questions[i].question_type = "single"
              /\ active_quizzes[u].questions[j].question_type = "single"
              /\ Recorded(active_quizzes[u], i) # PyNone
              /\ Recorded(active_quizzes[u], j) # PyNone
              /\ active_quizzes[u].questions[i].correct_answer # <<>>
              /\ active_quizzes[u].questions[j].correct_answer # <<>>
              /\ Scored(active_quizzes[u], i)
              /\ ~Scored(active_quizzes[u], j)

\* the sequence question shown to u, answered with the ints of its own
\* correct_answer through submit_answer, is scored correct
IntsOfCorrectOrderScoreCorrect(u) ==
    LET question == CurrentQuestion(active_quizzes, u, now)
        out == SubmitAnswerOn(active_quizzes, test_results, achievements, u,
                              question.id, PyList(question.correct_answer), now)
        index == active_quizzes[u].current_question + 1
    IN  question.question_type = "sequence" =>
            IF HasQuiz(out.aq, u)
            THEN Scored(out.aq[u], index)
            ELSE out.return.result.question_results[index].is_correct

\* C3: a question of type sequence is scored correct if and only if the
\* recorded answer, every element stringified, equals the stringified
\* correct_answer element by element, in the same order and of the same
\* length; submit_answer records the elements as strings, so the ints of the
\* right order are scored correct.
C3_SequenceScoring ==
    \A u \in Users :
        HasQuiz(active_quizzes, u) =>
            LET quiz_data == active_quizzes[u]
            IN  /\ \A i \in 1..Len(quiz_data.questions) :
                      ( /\ quiz_data.questions[i].question_type = "sequence"
                        /\ Recorded(quiz_data, i) # PyNone )
                      => LET answer == Recorded(quiz_data, i)[2]
                             correct == quiz_data.questions[i].correct_answer
                         IN  /\ \A k \in 1..Len(answer) : answer[k][1] = "str"
                             /\ Scored(quiz_data, i) <=>
                                   /\ Len(answer) = Len(correct)
                                   /\ \A k \in 1..Len(answer) :
                                         PyStrOf(answer[k]) = PyStrOf(correct[k])
                /\ IntsOfCorrectOrderScoreCorrect(u)

\* a sequence question holds the recorded answer ["0", "1"] and is scored
\* correct, having been answered through submit_answer
C3_Witness ==
    \E u \in Users :
        /\ HasQuiz(active_quizzes, u)
        /\ \E i \in 1..Len(active_quizzes[u].questions) :
              /\ active_quizzes[u].questions[i].question_type = "sequence"
              /\ active_quizzes[u].current_question >= i
              /\ Recorded(active_quizzes[u], i) = PyList(<<PyStr(0), PyStr(1)>>)
              /\ Scored(active_quizzes[u], i)

-----------------------------------------------------------------------------
(* Properties of the deadline and of start_quiz *)

\* the session aq keeps for u is the session quiz_data, is_completed apart
SameSessionFor(aq, u, quiz_data) ==
    HasQuiz(aq, u) => aq[u] = [quiz_data EXCEPT !.is_completed = aq[u].is_completed]

\* what a call on an expired session returns and leaves, against complete_quiz
\* called at once on the state before it
SameAsCompleteQuiz(u, out) ==
    LET direct == CompleteQuizOn(active_quizzes, test_results, achievements, u, now)
    IN  /\ out.completes
        /\ out.return.raised = direct.raised
        /\ out.return.result = direct.res
        /\ ~direct.raised =>
              /\ out.return.success
              /\ out.return.is_completed
        /\ out.tr = direct.tr
        /\ out.ach = direct.ach
        /\ HasQuiz(out.aq, u) <=> HasQuiz(direct.aq, u)
        /\ SameSessionFor(out.aq, u, active_quizzes[u])
        /\ \A v \in Users \ {u} : out.aq[v] = active_quizzes[v]
        /\ direct.res.success =>
              /\ direct.res.time_spent = active_quizzes[u].time_limit
              /\ direct.tr[u][Len(direct.tr[u])].time_spent =
                    active_quizzes[u].time_limit

\* C4: once end_time has passed, submit_answer and skip_question record no
\* answer and leave current_question as it is; they return and leave what
\* complete_quiz called directly on the session would, with is_completed
\* True, and the time_spent of that completion is time_limit whatever the
\* time that has passed since the deadline.
C4_TimeoutShortCircuit ==
    \A u \in Users :
        ( /\ HasQuiz(active_quizzes, u)
          /\ Expired(active_quizzes[u], now) )
        => /\ \A question_id \in AskedIds(u) :
                 \A answer \in AnswerInputs(TypeOf(question_id)) :
                    SameAsCompleteQuiz(u,
                        SubmitAnswerOn(active_quizzes, test_results, achievements,
                                       u, question_id, answer, now))
           /\ SameAsCompleteQuiz(u,
                  SkipQuestionOn(active_quizzes, test_results, achievements, u, now))

\* submit_answer found the deadline passed and completed the quiz: the row it
\* added has time_spent 300 although 1200 seconds or more have passed
C4_Witness ==
    /\ last.op = "submit_answer"
    /\ last.timeout
    /\ last.success
    /\ last.had_index > 0
    /\ ~HasQuiz(active_quizzes, last.user)
    /\ test_results[last.user] # <<>>
    /\ test_results[last.user][Len(test_results[last.user])].time_spent = TimeLimitShort
    /\ now >= 1200

\* C5: the store holds one session per user; a successful start_quiz for a
\* user who has a session replaces it whole: current_question 0, no answers,
\* the new questions and deadline, success returned, the other users'
\* sessions untouched, and get_current_question then returns the first
\* question of the new session.
C5_SessionSingleton ==
    [][ \A u \in Users, topic_id \in Topics, question_count \in CountInputs :
          ( /\ StartQuiz(u, topic_id, question_count)
            /\ QuestionsOf(topic_id) # {} )
          => /\ HasQuiz(active_quizzes', u)
             /\ active_quizzes'[u].topic_id = topic_id
             /\ active_quizzes'[u].current_question = 0
             /\ active_quizzes'[u].answers = <<>>
             /\ ~active_quizzes'[u].is_completed
             /\ active_quizzes'[u].start_time = now
             /\ active_quizzes'[u].end_time = now + active_quizzes'[u].time_limit
             /\ \A i \in 1..Len(active_quizzes'[u].questions) :
                   \E q \in QuestionsOf(topic_id) :
                      active_quizzes'[u].questions[i] = Snapshot(q)
             /\ Len(active_quizzes'[u].questions) >= 1
             /\ CurrentQuestion(active_quizzes', u, now') =
                   active_quizzes'[u].questions[1]
             /\ last'.success
             /\ \A v \in Users \ {u} : active_quizzes'[v] = active_quizzes[v]
             /\ test_results' = test_results
      ]_vars

\* start_quiz succeeded for a user whose session had advanced, and the store
\* holds a session at its first question without answers
C5_Witness ==
    /\ last.op = "start_quiz"
    /\ last.success
    /\ last.had_index > 0
    /\ HasQuiz(active_quizzes, last.user)
    /\ active_quizzes[last.user].current_question = 0
    /\ active_quizzes[last.user].answers = <<>>
    /\ active_quizzes[last.user].start_time = now

\* C8: for a topic with N >= 1 questions, a successful start_quiz(user_id,
\* topic_id, question_count) stores a session whose questions are exactly
\* min(question_count, N) in number, all of that topic, and no question id
\* occurs twice.
C8_Sampling ==
    [][ \A u \in Users, topic_id \in Topics, question_count \in CountInputs :
          ( /\ StartQuiz(u, topic_id, question_count)
            /\ Cardinality(QuestionsOf(topic_id)) >= 1 )
          => LET questions == active_quizzes'[u].questions
                 N == Cardinality(QuestionsOf(topic_id))
             IN  /\ last'.success
                 /\ Len(questions) = IF question_count < N THEN question_count ELSE N
                 /\ \A i \in 1..Len(questions) :
                       \E q \in Bank :
                          /\ q.topic_id = topic_id
                          /\ q.id = questions[i].id
                          /\ q.question_type = questions[i].question_type
                          /\ q.correct_answer = questions[i].correct_answer
                 /\ \A i, j \in 1..Len(questions) :
                       i # j => questions[i].id # questions[j].id
      ]_vars

\* start_quiz with question_count 2 stored two different questions of topic 1,
\* which has three
C8_Witness ==
    /\ last.op = "start_quiz"
    /\ last.success
    /\ HasQuiz(active_quizzes, last.user)
    /\ active_quizzes[last.user].topic_id = 1
    /\ active_quizzes[last.user].current_question = 0
    /\ Len(active_quizzes[last.user].questions) = 2
    /\ active_quizzes[last.user].questions[1].id #
          active_quizzes[last.user].questions[2].id

-----------------------------------------------------------------------------
(* Properties of the result of complete_quiz *)

\* x is p tenths of a percent: correct_count / total_questions * 100 rounded
\* to one decimal, 0 for no question
IsRoundedPercentage(p, correct_count, total_questions) ==
    IF total_questions = 0 THEN p = 0
    ELSE LET d == p * total_questions - 1000 * correct_count
         IN  2 * d <= total_questions /\ 2 * d >= -total_questions

\* the result and the row of a call that ran complete_quiz on the session
\* quiz_data for user u with success
CountsAgree(u, quiz_data, out) ==
    out.return.result.success =>
        LET result == out.return.result
            row == out.tr[u][Len(out.tr[u])]
            scored == {i \in 1..Len(quiz_data.questions) :
                          result.question_results[i].is_correct}
        IN  /\ Len(result.question_results) = Len(quiz_data.questions)
            /\ result.correct_count = Cardinality(scored)
            /\ result.total_questions = Len(quiz_data.questions)
            /\ IsRoundedPercentage(result.percentage, result.correct_count,
                                   result.total_questions)
            /\ Len(out.tr[u]) = Len(test_results[u]) + 1
            /\ row.score = result.correct_count
            /\ row.max_score = result.total_questions
            /\ row.percentage = result.percentage

\* the three single questions with correct answers 0, 1, 0 in order, the
\* first two answered 0 and 1: answering the third with 1 gives 2 and 66.7
Example667(u) ==
    LET quiz_data == active_quizzes[u]
    IN  ( /\ Len(quiz_data.questions) = 3
          /\ \A i \in 1..3 : quiz_data.questions[i].question_type = "single"
          /\ [i \in 1..3 |-> quiz_data.questions[i].correct_answer] =
                <<<<PyInt(0)>>, <<PyInt(1)>>, <<PyInt(0)>>>>
          /\ quiz_data.current_question = 2
          /\ Recorded(quiz_data, 1) = PyInt(0)
          /\ Recorded(quiz_data, 2) = PyInt(1)
          /\ ~Expired(quiz_data, now)
          /\ u \in DbUsers )
        => LET out == SubmitAnswerOn(active_quizzes, test_results, achievements,
                                     u, quiz_data.questions[3].id, PyInt(1), now)
           IN  /\ out.return.result.success
               /\ out.return.result.correct_count = 2
               /\ out.return.result.total_questions = 3
               /\ out.return.result.percentage = 667

\* C9: complete_quiz returns, and stores in the TestResult row, correct_count
\* as the number of questions of the session scored correct, total_questions
\* as the number of its questions, and percentage as correct_count /
\* total_questions * 100 rounded to one decimal (0 for no question); three
\* single questions with correct answers [0, 1, 0] answered 0, 1, 1 give
\* correct_count 2 and percentage 66.7.
C9_Counts ==
    \A u \in Users :
        HasQuiz(active_quizzes, u) =>
            /\ LET done == CompleteQuizOn(active_quizzes, test_results,
                                          achievements, u, now)
               IN  /\ CountsAgree(u, active_quizzes[u],
                                  [tr |-> done.tr, return |-> [result |-> done.res]])
            /\ \A question_id \in AskedIds(u) :
                  \A answer \in AnswerInputs(TypeOf(question_id)) :
                     CountsAgree(u, active_quizzes[u],
                         SubmitAnswerOn(active_quizzes, test_results, achievements,
                                        u, question_id, answer, now))
            /\ CountsAgree(u, active_quizzes[u],
                  SkipQuestionOn(active_quizzes, test_results, achievements, u, now))
            /\ Example667(u)
            /\ \A i \in 1..Len(test_results[u]) :
                  /\ test_results[u][i].score <= test_results[u][i].max_score
                  /\ IsRoundedPercentage(test_results[u][i].percentage,
                                         test_results[u][i].score,
                                         test_results[u][i].max_score)

\* submit_answer completed a quiz of three questions with two scored correct
\* and the row holds 2, 3 and 66.7
C9_Witness ==
    /\ last.op = "submit_answer"
    /\ last.success
    /\ ~last.timeout
    /\ test_results[last.user] # <<>>
    /\ LET row == test_results[last.user][Len(test_results[last.user])]
       IN  /\ row.topic_id = 1
           /\ row.score = 2
           /\ row.max_score = 3
           /\ row.percentage = 667

-----------------------------------------------------------------------------
(* Properties of restore_active_quizzes *)

\* C6: restore_active_quizzes does not load a per-user file whose end_time is
\* in the past and deletes the file; right after the restart complete_quiz,
\* submit_answer and skip_question report no active quiz for that user.
C6_RestoreExpiry ==
    [][ \A u \in Users :
          ( /\ Restart
            /\ files[u] # NoFile
            /\ FromIsoFormat(files[u].end_time) < now )
          => /\ ~HasQuiz(active_quizzes', u)
             /\ files'[u] = NoFile
             /\ LET done == CompleteQuizOn(active_quizzes', test_results',
                                           achievements', u, now')
                IN  /\ ~done.res.success
                    /\ done.res.message = "no active quiz"
                    /\ done.tr = test_results
             /\ \A question_id \in QuestionIds :
                   \A answer \in AnswerInputs(TypeOf(question_id)) :
                      LET out == SubmitAnswerOn(active_quizzes', test_results',
                                                achievements', u, question_id,
                                                answer, now')
                      IN  /\ ~out.return.success
                          /\ out.return.message = "no active quiz"
                          /\ out.aq = active_quizzes'
             /\ LET out == SkipQuestionOn(active_quizzes', test_results',
                                          achievements', u, now')
                IN  /\ ~out.return.success
                    /\ out.return.message = "no active quiz"
                    /\ out.aq = active_quizzes'
      ]_vars

\* a restart found the file of a session that had been saved with an answer
\* and whose deadline had passed: no session, no file
C6_Witness ==
    /\ last.op = "restore_active_quizzes"
    /\ last.timeout
    /\ restarts = 1
    /\ \A u \in Users : ~HasQuiz(active_quizzes, u) /\ files[u] = NoFile
    /\ now > TimeLimitShort

-----------------------------------------------------------------------------
(* Properties of check_achievements *)

\* C7: for every user and every achievement name at most one Achievement is
\* granted, whatever completions and calls of check_achievements came before;
\* two calls on the same history, also inside one transaction, neither return
\* nor store a name twice.
C7_AtMostOncePerName ==
    /\ \A u \in Users : NoRepeat(achievements[u])
    /\ NoRepeat(Concat(evaluated.returned))

-----------------------------------------------------------------------------
(* Properties of CacheService *)

\* C10: get_or_set runs at most one factory per key at a time, under every
\* interleaving of get_or_set callers with set, get, invalidate, the cleanup
\* loop and stop: two callers are never inside the factory for the same key.
C10_SingleFlight ==
    \A c1, c2 \in Callers :
        ( /\ c1 # c2
          /\ pc[c1] = "factory"
          /\ pc[c2] = "factory" )
        => call_key[c1] # call_key[c2]

-----------------------------------------------------------------------------
(* Properties of the life of a session *)

CompletingOps == {"submit_answer", "skip_question", "complete_quiz"}

NoActiveQuizFor(u) ==
    /\ CurrentQuestion(active_quizzes, u, now) = NoQuestion
    /\ LET done == CompleteQuizOn(active_quizzes, test_results, achievements, u, now)
       IN  /\ ~done.raised
           /\ done.res = Failure("no active quiz")
           /\ done.aq = active_quizzes
           /\ done.tr = test_results
           /\ done.ach = achievements
    /\ \A question_id \in QuestionIds :
          \A answer \in AnswerInputs(TypeOf(question_id)) :
             SubmitAnswerOn(active_quizzes, test_results, achievements, u,
                            question_id, answer, now) =
             Plain(active_quizzes, test_results, achievements, FALSE,
                   "no active quiz")
    /\ SkipQuestionOn(active_quizzes, test_results, achievements, u, now) =
       Plain(active_quizzes, test_results, achievements, FALSE, "no active quiz")

C14_NoQuestionsAvailable ==
    [][ \A u \in Users, topic_id \in Topics, question_count \in CountInputs :
          ( /\ StartQuiz(u, topic_id, question_count)
            /\ QuestionsOf(topic_id) = {} )
          => /\ active_quizzes' = active_quizzes
             /\ last'.op = "start_quiz"
             /\ ~last'.success
             /\ ~last'.raised
             /\ last'.message = "no questions"
             /\ test_results' = test_results
             /\ achievements' = achievements
      ]_vars

\* start_quiz failed for want of questions while its user had a session that
\* had advanced, and the session stands as it was
C14_Witness ==
    /\ last.op = "start_quiz"
    /\ ~last.success
    /\ last.message = "no questions"
    /\ last.had_index > 0
    /\ HasQuiz(active_quizzes, last.user)
    /\ active_quizzes[last.user].current_question = last.had_index
    /\ active_quizzes[last.user].answers # <<>>

\* ---------------------------------------------------------------------------
\* Properties of completion against the data store and the notifier

\* what a handler sees after a submit_answer or skip_question that ran
\* complete_quiz: the quiz reported as successfully completed
ReportsCompleted(out) ==
    out.completes /\ ~out.return.raised /\ out.return.success /\ out.return.is_completed

\* C15: when the user of a session is absent from the data store,
\* complete_quiz returns the "user not found" failure, records no TestResult
\* and no Achievement and creates no notification task, and a submit_answer
\* or skip_question that ran this completion does not report the quiz as
\* successfully completed
C15_UserNotFoundIsHardFailure ==
    \A u \in Users \ DbUsers :
       HasQuiz(active_quizzes, u) =>
          LET done == CompleteQuizOn(active_quizzes, test_results, achievements, u, now)
              skipped == SkipQuestionOn(active_quizzes, test_results, achievements, u, now)
          IN  /\ ~done.raised
              /\ done.res = Failure("user not found")
              /\ done.tr = test_results
              /\ done.ach = achievements
              /\ done.tasks = 0
              /\ ~ReportsCompleted(skipped)
              /\ \A question_id \in AskedIds(u) :
                    \A answer \in AnswerInputs(TypeOf(question_id)) :
                       ~ReportsCompleted(SubmitAnswerOn(active_quizzes, test_results,
                                                        achievements, u, question_id,
                                                        answer, now))

\* the names in a list of achievement rows
Names(rows) == SeqToSet(rows)

\* the achievements this completion had to grant are all among the rows
AllGranted(rows, ach_rows) ==
    LET row == rows[Len(rows)]
    IN  /\ "First test" \in Names(ach_rows)
        /\ row.percentage = FullPercentage => "Perfect score" \in Names(ach_rows)
        /\ Len(rows) >= HistoryThreshold => "History expert" \in Names(ach_rows)

\* C16: the TestResult of a completion and its new Achievements are
\* committed together: a step that persists the TestResult persists every
\* achievement the completion grants, and a step that persists no TestResult
\* persists no achievement, also when a statement or a commit of the
\* completion fails
C16_AtomicCommit ==
    [][\A u \in Users :
         LET rows == test_results'[u]
             grew == Len(rows) > Len(test_results[u])
         IN  /\ achievements'[u] # achievements[u] => grew
             /\ grew =>
                   /\ Len(rows) = Len(test_results[u]) + 1
                   /\ SubSeq(rows, 1, Len(test_results[u])) = test_results[u]
                   /\ Len(achievements'[u]) >= Len(achievements[u])
                   /\ SubSeq(achievements'[u], 1, Len(achievements[u])) = achievements[u]
                   /\ AllGranted(rows, achievements'[u])]_vars

\* a completion whose commit failed: nothing of it is in the data store
C16_Witness ==
    /\ faults = 1
    /\ last.op = "complete_quiz"
    /\ last.raised
    /\ last.user \in DbUsers
    /\ HasQuiz(active_quizzes, last.user)
    /\ test_results[last.user] = <<>>
    /\ achievements[last.user] = <<>>

\* C17: whatever the notification service does (absent, its task cannot be
\* created, its task raises, its task sends), complete_quiz for a user of
\* the data store returns success, with the TestResult persisted and the
\* session removed
C17_NotifierNeverFailsCompletion ==
    \A u \in DbUsers :
       HasQuiz(active_quizzes, u) =>
          LET done == CompleteQuizOn(active_quizzes, test_results, achievements, u, now)
          IN  /\ ~done.raised
              /\ done.res.success
              /\ Len(done.tr[u]) = Len(test_results[u]) + 1
              /\ ~HasQuiz(done.aq, u)
              /\ done.tasks = IF notification_service \in {"raising", "sending"}
                              THEN 1 ELSE 0

\* a completion that succeeded although the notification task could not be
\* created
C17_Witness ==
    /\ notification_service = "unschedulable"
    /\ last.op = "complete_quiz"
    /\ last.success
    /\ last.user \in DbUsers
    /\ ~HasQuiz(active_quizzes, last.user)
    /\ Len(test_results[last.user]) = 1
    /\ notified = 0

\* ---------------------------------------------------------------------------
\* Properties of the snapshot files

\* C18: at every instant, also after a crash at any step of a pass of
\* save_active_quizzes, the file user_<id>.json of every user and the
\* manifest are absent or hold one complete encoding written by one finished
\* write: never an empty, half-written or mixed file (a file damaged on the
\* disk from outside is not the program's write)
C18_AtomicFiles ==
    /\ manifest = NoFile \/ manifest.version = "1.0"
    /\ \A u \in Users : files[u] \notin {EmptyFile, TornFile}

\* what every state of a session satisfies: an answer is recorded only
\* together with the step to the next question, so there are never more
\* answers than questions passed
Coherent(quiz_data) ==
    Cardinality(DOMAIN quiz_data.answers) <= quiz_data.current_question

\* C19: every per-user file a pass of save_active_quizzes produces holds a
\* state the session had at one instant: its current_question and answers
\* belong together, whatever submit_answer, skip_question and complete_quiz
\* do while the pass runs
C19_SnapshotIsOneInstant ==
    \A u \in Users : Readable(files[u]) => Coherent(files[u])

\* the step ends the pass p otherwise than by a restart of the process
EndsPass(p) ==
    /\ saver[p].step \notin {"idle", "exit"}
    /\ saver'[p].step \in {"idle", "exit"}
    /\ restarts' = restarts

\* the step is a read of the files by restore_active_quizzes
Restores == restarts' = restarts + 1

\* C20: a failure with the file of one user does not end a pass: a pass of
\* save_active_quizzes ends only after every session it began with is
\* written or has failed by itself (or when the store changes size under
\* it), a failed user leaves the file it had and no temp file, and
\* restore_active_quizzes loads every readable unexpired file and deletes
\* every unreadable one
C20_OneFailureDoesNotEndPass ==
    [][/\ \A p \in Passes :
            /\ EndsPass(p) =>
                  \/ saver[p].step = "iter" /\ ActiveCount # saver[p].size
                  \/ /\ saver[p].step = "cleanup"
                     /\ saver[p].saved \cup saver[p].failed = saver[p].keys
            /\ \A u \in saver'[p].failed \ saver[p].failed :
                  /\ saver'[p].step = "iter"
                  /\ saver'[p].todo = saver[p].todo
                  /\ temp'[u] = NoFile
            /\ \A u \in saver'[p].saved \ saver[p].saved : files'[u] = temp[u]
       /\ Restores =>
             \A u \in Users :
                /\ (Readable(files[u]) /\ ~FileExpired(files[u], now)) =>
                      /\ active_quizzes'[u] = RestoreQuizDataFromSave(JsonLoad(files[u]))
                      /\ files'[u] = files[u]
                /\ (files[u] # NoFile /\ ~Readable(files[u])) =>
                      /\ ~HasQuiz(active_quizzes', u)
                      /\ files'[u] = NoFile]_vars

\* a pass went on after the file of user 1 failed and wrote the file of
\* user 2
C20_Witness ==
    \E p \in Passes :
       /\ 1 \in saver[p].failed
       /\ 2 \in saver[p].saved
       /\ saver[p].step = "cleanup"
       /\ faults = 1
       /\ Readable(files[2])

\* a restart found one file unreadable and still loaded the other
C20_RestoreWitness ==
    /\ last.op = "restore_active_quizzes"
    /\ last.message = "unreadable file removed"
    /\ \E u, v \in Users :
          /\ ~HasQuiz(active_quizzes, u)
          /\ files[u] = NoFile
          /\ HasQuiz(active_quizzes, v)
          /\ Readable(files[v])

\* ---------------------------------------------------------------------------
\* Properties of the third group of claims

\* what a snapshot taken now would give back for the session of u
RoundTrip(u) ==
    RestoreQuizDataFromSave(
        JsonLoad(JsonDump(PrepareQuizDataForSave(active_quizzes[u], now))))

C22_SkippedIsUnanswered ==
    [][\A u \in Users :
          (/\ CurrentQuestion(active_quizzes, u, now) # NoQuestion
           /\ SkipButton(u)) =>
             LET skipped == CurrentQuestion(active_quizzes, u, now)
                 at_completion == IF HasQuiz(active_quizzes', u)
                                  THEN active_quizzes'[u].answers
                                  ELSE active_quizzes[u].answers
             IN  /\ Key(skipped.id) \notin DOMAIN at_completion
                 /\ ~IsCorrect(skipped, DictGet(at_completion, Key(skipped.id)))]_vars

\* what submit_answer(u, question_id, answer), called by a button before the
\* deadline, has left when it advanced the session
Submitted(u, question_id, answer) ==
    LET quiz_data == active_quizzes[u]
        question_index == quiz_data.current_question
        current_question == quiz_data.questions[question_index + 1]
        out == SubmitAnswerOn(active_quizzes, test_results, achievements, u,
                              question_id, answer, now)
    IN  /\ out.return.success
        /\ out.return.is_completed = (question_index + 1 >= Len(quiz_data.questions))
        /\ HasQuiz(active_quizzes', u) =>
              /\ active_quizzes'[u].answers =
                    DictSet(quiz_data.answers, Key(question_id),
                            NormalizedAnswer(current_question, answer))
              /\ active_quizzes'[u].current_question = question_index + 1
        /\ ~HasQuiz(active_quizzes', u) =>
              question_index + 1 = Len(quiz_data.questions)

\* the session of u is one that a step advanced or finished
Advanced(u) ==
    /\ HasQuiz(active_quizzes, u)
    /\ ~Expired(active_quizzes[u], now)
    /\ active_quizzes[u].current_question < Len(active_quizzes[u].questions)
    /\ \/ ~HasQuiz(active_quizzes', u)
       \/ active_quizzes'[u].current_question # active_quizzes[u].current_question

\* C23: a successful submit_answer(user_id, question_id, answer) before the
\* deadline, as the answer button of a single question and the confirm button
\* call it, writes answers[str(question_id)] = the normalized answer, changes
\* no other entry, moves current_question on by exactly 1 and returns
\* is_completed = False unless current_question has reached len(questions)
C23_SubmitWritesItsEntry ==
    [][\A u \in Users :
          \A question_id \in ButtonIds(u) :
             /\ \A option_index \in OptionInputs :
                   (Advanced(u) /\ AnswerButton(u, question_id, option_index)) =>
                      Submitted(u, question_id, PyInt(option_index))
             /\ (Advanced(u) /\ ConfirmButton(u, question_id)) =>
                   Submitted(u, question_id, Selected(active_quizzes[u], question_id))]_vars

\* a confirm button has submitted a sequence the user had picked: the entry
\* of the question holds it and the session is at its next question
C23_Witness ==
    \E u \in Users :
       /\ HasQuiz(active_quizzes, u)
       /\ active_quizzes[u].current_question = 1
       /\ active_quizzes[u].questions[1].question_type = "sequence"
       /\ Key(active_quizzes[u].questions[1].id) \in DOMAIN active_quizzes[u].answers
       /\ Len(active_quizzes[u].answers[Key(active_quizzes[u].questions[1].id)][2]) = 2

\* the step is a submit_answer or a skip_question of u that returned success
SuccessfulMove(u) ==
    \/ \E question_id \in AskedIds(u) :
          \E answer \in AnswerInputs(TypeOf(question_id)) :
             /\ SubmitAnswer(u, question_id, answer)
             /\ SubmitAnswerOn(active_quizzes, test_results, achievements, u,
                               question_id, answer, now).return.success
    \/ /\ SkipQuestion(u)
       /\ SkipQuestionOn(active_quizzes, test_results, achievements, u, now).return.success

\* the call whose effect is out failed and left the cursor of u where it was
FailsInPlace(u, out) ==
    /\ ~out.return.success
    /\ HasQuiz(out.aq, u)
    /\ out.aq[u].current_question = active_quizzes[u].current_question

\* C25: the cursor of every stored session lies in 0..len(questions); while
\* the session lasts it never goes back, it goes up only in a submit_answer
\* or skip_question that succeeds and then by exactly 1, and on a session
\* whose cursor is len(questions) both calls fail and leave it there
C25_CursorMoves ==
    [][\A u \in Users :
          /\ HasQuiz(active_quizzes', u) =>
                /\ active_quizzes'[u].current_question >= 0
                /\ active_quizzes'[u].current_question <= Len(active_quizzes'[u].questions)
          /\ (HasQuiz(active_quizzes, u) /\ HasQuiz(active_quizzes', u)
                 /\ started' = started) =>
                /\ active_quizzes'[u].current_question >= active_quizzes[u].current_question
                /\ active_quizzes'[u].current_question # active_quizzes[u].current_question =>
                      /\ active_quizzes'[u].current_question =
                            active_quizzes[u].current_question + 1
                      /\ SuccessfulMove(u)
          /\ (/\ HasQuiz(active_quizzes, u)
              /\ active_quizzes[u].current_question = Len(active_quizzes[u].questions)) =>
                /\ FailsInPlace(u, SkipQuestionOn(active_quizzes, test_results,
                                                  achievements, u, now))
                /\ \A question_id \in AskedIds(u) :
                      \A answer \in AnswerInputs(TypeOf(question_id)) :
                         FailsInPlace(u, SubmitAnswerOn(active_quizzes, test_results,
                                                        achievements, u, question_id,
                                                        answer, now))]_vars

\* C26: start_quiz takes time_limit from the question_count requested, not
\* from the number of questions sampled (up to 10 gives 300 s, 11 to 15 gives
\* 600 s, more gives 1200 s), and the session has end_time = start_time +
\* time_limit with min(question_count, rows of the topic) questions
C26_LimitFromRequestedCount ==
    [][\A u \in Users, topic_id \in Topics, question_count \in LimitCounts :
          (StartQuiz(u, topic_id, question_count) /\ last'.success) =>
             LET quiz_data == active_quizzes'[u]
             IN  /\ quiz_data.time_limit =
                       IF question_count <= 10 THEN TimeLimitShort
                       ELSE IF question_count >= 11 /\ question_count <= 15
                            THEN TimeLimitMedium
                       ELSE TimeLimitLong
                 /\ quiz_data.start_time = now
                 /\ quiz_data.end_time = quiz_data.start_time + quiz_data.time_limit
                 /\ Len(quiz_data.questions) =
                       Min(question_count, Cardinality(QuestionsOf(topic_id)))]_vars

\* 20 questions were asked for from a topic of 3: a session of 3 questions
\* with a limit of 1200 s
C26_Witness ==
    /\ last.op = "start_quiz"
    /\ last.success
    /\ HasQuiz(active_quizzes, last.user)
    /\ Len(active_quizzes[last.user].questions) = 3
    /\ active_quizzes[last.user].current_question = 0
    /\ active_quizzes[last.user].time_limit = TimeLimitLong
    /\ active_quizzes[last.user].end_time = now + TimeLimitLong

\* C27: a completion that persists a TestResult grants "History expert" to
\* a user who does not hold it exactly when the rows of the user, the new
\* one included, number at least 10
C27_HistoryCountsNewRow ==
    [][\A u \in Users :
          (/\ Len(test_results'[u]) = Len(test_results[u]) + 1
           /\ "History expert" \notin Names(achievements[u])) =>
             LET new_achievements ==
                    SubSeq(achievements'[u], Len(achievements[u]) + 1,
                           Len(achievements'[u]))
             IN  /\ SubSeq(achievements'[u], 1, Len(achievements[u])) = achievements[u]
                 /\ "History expert" \in Names(new_achievements) <=>
                       Len(test_results'[u]) >= 10]_vars

\* the completion that wrote the tenth row granted the achievement
C27_Witness ==
    /\ last.op \in CompletingOps
    /\ last.success
    /\ last.user \in DbUsers
    /\ Len(test_results[last.user]) = 10
    /\ Len(achievements[last.user]) >= 2
    /\ achievements[last.user][Len(achievements[last.user])] = "History expert"

\* a completion that wrote the ninth row granted nothing of the kind
C27_BelowWitness ==
    /\ last.op \in CompletingOps
    /\ last.success
    /\ last.user \in DbUsers
    /\ Len(test_results[last.user]) = 9
    /\ "History expert" \notin Names(achievements[last.user])

\* the answers complete_quiz can find in the session of u in this step:
\* those held, or those with the answer a submit_answer added for the
\* current question
FinalAnswers(u) ==
    LET quiz_data == active_quizzes[u]
    IN  {quiz_data.answers} \cup
        IF quiz_data.current_question < Len(quiz_data.questions)
        THEN LET current_question ==
                    quiz_data.questions[quiz_data.current_question + 1]
             IN  {DictSet(quiz_data.answers, Key(current_question.id),
                          NormalizedAnswer(current_question, answer)) :
                     answer \in AnswerInputs(current_question.question_type)}
        ELSE {}

\* C28: the questions of a session are the copies start_quiz took: an edit
\* or a deletion in table Question changes no session and no question that
\* get_current_question returns, the questions of a session never change
\* while it lasts, and complete_quiz scores against the correct_answer of
\* these copies
C28_QuestionsAreCopies ==
    [][\A u \in Users :
          /\ question_bank' # question_bank =>
                /\ active_quizzes'[u] = active_quizzes[u]
                /\ CurrentQuestion(active_quizzes', u, now') =
                      CurrentQuestion(active_quizzes, u, now)
          /\ (HasQuiz(active_quizzes, u) /\ HasQuiz(active_quizzes', u)
                 /\ started' = started) =>
                active_quizzes'[u].questions = active_quizzes[u].questions
          /\ Len(test_results'[u]) = Len(test_results[u]) + 1 =>
                \E answers \in FinalAnswers(u) :
                   LET scored == QuestionResults([active_quizzes[u] EXCEPT
                                                     !.answers = answers])
                       row == test_results'[u][Len(test_results'[u])]
                   IN  /\ row.score = CorrectCount(scored)
                       /\ \A i \in 1..Len(scored) :
                             scored[i].correct_answer =
                                active_quizzes[u].questions[i].correct_answer]_vars

\* a session in progress whose current question is no longer as table
\* Question has it: the row was edited or deleted after the session started
C28_Witness ==
    \E u \in Users :
       /\ HasQuiz(active_quizzes, u)
       /\ active_quizzes[u].current_question = 1
       /\ CurrentQuestion(active_quizzes, u, now) # NoQuestion
       /\ \A q \in question_bank :
             Snapshot(q) # CurrentQuestion(active_quizzes, u, now)

\* the session of u holds an answer to a single question whose
\* correct_answer is the empty list
AnsweredEmpty(quiz_data) ==
    /\ quiz_data # NoQuiz
    /\ \E i \in 1..Len(quiz_data.questions) :
          /\ quiz_data.questions[i].question_type = "single"
          /\ quiz_data.questions[i].correct_answer = <<>>
          /\ Key(quiz_data.questions[i].id) \in DOMAIN quiz_data.answers

\* C29: complete_quiz on a session with an answered single question whose
\* correct_answer is empty scores that question as not correct and finishes:
\* it does not raise, the TestResult is persisted and the session removed
C29_EmptyCorrectAnswerGuarded ==
    [][\A u \in DbUsers :
          (/\ last' # last
           /\ last'.op \in CompletingOps
           /\ last'.user = u
           /\ AnsweredEmpty(active_quizzes[u]) \/ AnsweredEmpty(active_quizzes'[u])) =>
             /\ ~last'.raised
             /\ ~HasQuiz(active_quizzes', u)
             /\ Len(test_results'[u]) = Len(test_results[u]) + 1
             /\ test_results'[u][Len(test_results'[u])].score = 0]_vars

\* C30: the pass of the auto-save timer and the pass of the shutdown never
\* run at the same time
C30_PassesNeverOverlap ==
    ~(saver["timer"].step # "idle" /\ saver["shutdown"].step # "idle")

\* a press of a quiz button or a display of the question by user u
Interaction(u) ==
    \/ \E question_id \in Shown(u, AnswerKeyboards), option_index \in OptionInputs :
          AnswerButton(u, question_id, option_index)
    \/ \E question_id \in Shown(u, SequenceKeyboards), option_index \in OptionInputs :
          SequenceButton(u, question_id, option_index)
    \/ \E question_id \in Shown(u, SequenceKeyboards) : ResetButton(u, question_id)
    \/ \E question_id \in Shown(u, ConfirmKeyboards) : ConfirmButton(u, question_id)
    \/ SkipButton(u)
    \/ ShowQuestion(u)

\* C24: once the deadline of a session has passed, every quiz interaction of
\* its user calls complete_quiz for it, and the session of a user the Data
\* Store knows is gone from the store afterwards
C24_ExpiredInteractionCompletes ==
    [][\A u \in Users :
          (/\ HasQuiz(active_quizzes, u)
           /\ Expired(active_quizzes[u], now)
           /\ Interaction(u)) =>
             /\ last'.op \in CompletingOps /\ last'.user = u /\ last'.timeout
             /\ u \in DbUsers => ~HasQuiz(active_quizzes', u)]_vars

====
